---- MODULE Spec2Model ----
(***************************************************************************)
(* A model of the Charon translation driver (the work-list of declarations *)
(* of translate_crate_to_ullbc.rs and the registration API of              *)
(* translate_ctx.rs) and of the dead-local elimination pass                *)
(* (remove_unused_locals.rs) with the expression visitor it is built on    *)
(* (expressions_utils.rs).                                                 *)
(***************************************************************************)
EXTENDS Integers, Sequences, FiniteSets, TLC

(***************************************************************************)
(* Bounds of the model.                                                    *)
(***************************************************************************)
\* Number of source declarations (rustc DefIds) of the crate.
NumDefIds == 3
\* Largest number of references between declarations in the crate.
MaxEdges == 2
\* Largest number of distinct items registered by the initial walk over the
\* items of the crate.
MaxTopItems == 2

(***************************************************************************)
(* Generic helpers.                                                        *)
(***************************************************************************)
Range(s) == {s[i] : i \in DOMAIN s}

NoDup(s) == \A i, j \in DOMAIN s : i # j => s[i] # s[j]

IndexOf(s, x) == CHOOSE i \in DOMAIN s : s[i] = x

\* Option<T>: None is <<>>, Some(x) is <<x>>.
None == <<>>
Some(x) == <<x>>

(***************************************************************************)
(* The crate handed over by the host compiler.                             *)
(***************************************************************************)
DefIds == 1..NumDefIds

\* The kinds of items of the crate which lead to a registration: functions,
\* constants and structures/enumerations, in a fixed rotation over the DefIds.
ItemKinds == <<"Fn", "Const", "Struct">>

ItemKindOf(d) == ItemKinds[((d - 1) % 3) + 1]

\* The namespace of the declaration registered for an item.
DeclKindOf(d) ==
  CASE ItemKindOf(d) = "Fn" -> "Fun"
    [] ItemKindOf(d) = "Const" -> "Global"
    [] ItemKindOf(d) = "Struct" -> "Type"

MirLevels == {"Built", "Promoted", "Optimized"}

\* get_mir::extract_constants_at_top_level: constants are kept as named
\* globals unless the optimized MIR is extracted.
extract_constants_at_top_level(level) == level \in {"Built", "Promoted"}

\* The reference graphs: a pair <<a, b>> says that the definition of a
\* mentions b.
Edges == DefIds \X DefIds

EdgeSets == {{}} \cup {Range(s) : s \in [1..MaxEdges -> Edges]}

\* The crates with at most one reference between declarations.
SingleEdgeSets == {{}} \cup {{e} : e \in Edges}

(***************************************************************************)
(* The items of the crate (tcx.hir().items()), their names, and the        *)
(* opaque modules (CrateInfo).                                             *)
(***************************************************************************)
\* The name of an item: the crate, then the modules down to the item.
Name(path) == <<"krate">> \o path

\* Name::is_in_modules: the name is in one of the modules of the crate.
is_in_modules(name, krate, modules) ==
  Len(name) >= 2 /\ name[1] = krate /\ name[2] \in modules

CrateInfo(opaque_mods) == [crate_name |-> "krate", opaque_mods |-> opaque_mods]

is_opaque_decl(crate_info, name) ==
  is_in_modules(name, crate_info.crate_name, crate_info.opaque_mods)

\* An item of the HIR: its kind, its DefId, its name and, for a module, its
\* items in order.
Item(kind, def_id, name, item_ids) ==
  [kind |-> kind, def_id |-> def_id, name |-> name, item_ids |-> item_ids]

\* The name of an item which has one.
hir_item_to_name(item) == Some(item.name)

item_def_id_to_name(item) == item.name

\* The declaration d as an item of the module at path.
DeclItem(d, path) == Item(ItemKindOf(d), d, Name(path \o <<"item">>), <<>>)

\* A crate without modules: every declaration is an item of the root.
RootItems == {DeclItem(d, <<>>) : d \in DefIds}

\* A crate with the modules m and n at the root and the module sub in n: the
\* declarations are, in rotation, in m, at the root and in n::sub.
PathOf(d) ==
  CASE d % 3 = 1 -> <<"m">>
    [] d % 3 = 2 -> <<>>
    [] OTHER -> <<"n", "sub">>

ItemsIn(path) ==
  LET ds == SelectSeq([d \in DefIds |-> d], LAMBDA d : PathOf(d) = path)
  IN [i \in DOMAIN ds |-> DeclItem(ds[i], path)]

ModM == Item("Mod", NumDefIds + 1, Name(<<"m">>), ItemsIn(<<"m">>))

ModSub == Item("Mod", NumDefIds + 3, Name(<<"n", "sub">>), ItemsIn(<<"n", "sub">>))

ModN == Item("Mod", NumDefIds + 2, Name(<<"n">>), <<ModSub>> \o ItemsIn(<<"n">>))

ModuleItems == {ModM, ModN, ModSub} \cup {DeclItem(d, PathOf(d)) : d \in DefIds}

\* The sets of opaque modules tried: none, the module m, the module n.
OpaqueModSets == {{}, {"m"}, {"n"}}

(***************************************************************************)
(* LinkedHashSet (crate linked_hash_set): a set which remembers the        *)
(* insertion order, kept as a sequence without duplicates.                 *)
(***************************************************************************)
SeqRemove(s, x) == SelectSeq(s, LAMBDA y : y # x)

\* insert places the value at the end of the ordering, whether or not the
\* set already contained it.
LinkedHashSet_insert(s, x) == Append(SeqRemove(s, x), x)

LinkedHashSet_pop_front(s) ==
  IF s = <<>> THEN [set |-> s, ret |-> None]
  ELSE [set |-> Tail(s), ret |-> Some(Head(s))]

(***************************************************************************)
(* MapGenerator: the memoizing map from source ids to dense ids, with its  *)
(* generator of fresh ids.                                                 *)
(***************************************************************************)
MapGenerator_new == [counter |-> 0, map |-> <<>>]

MapGenerator_get(g, k) ==
  IF k \in DOMAIN g.map THEN Some(g.map[k]) ELSE None

MapGenerator_insert(g, k) ==
  [gen |-> [counter |-> g.counter + 1, map |-> (k :> g.counter) @@ g.map],
   ret |-> g.counter]

(***************************************************************************)
(* The translation context (TransCtx). The field pushes is a log, for the  *)
(* verification only, of the calls to push_id.                             *)
(***************************************************************************)
AnyRustId(kind, id) == [kind |-> kind, id |-> id]

AnyTransId(kind, tid) == [kind |-> kind, id |-> tid]

TransCtx_new(crate_info, level) ==
  [mir_level |-> level,
   crate_info |-> crate_info,
   all_ids |-> <<>>,
   stack |-> <<>>,
   type_id_map |-> MapGenerator_new,
   fun_id_map |-> MapGenerator_new,
   global_id_map |-> MapGenerator_new,
   pushes |-> <<>>]

id_is_opaque(c, item) == is_opaque_decl(c.crate_info, item_def_id_to_name(item))

push_id_no_stack(c, id, trans_id) ==
  [c EXCEPT !.all_ids = LinkedHashSet_insert(@, trans_id),
            !.pushes = Append(@, id)]

push_id(c, id, trans_id) ==
  [c EXCEPT !.stack = LinkedHashSet_insert(@, id),
            !.all_ids = LinkedHashSet_insert(@, trans_id),
            !.pushes = Append(@, id)]

register_type_decl_id_no_push(c, id) ==
  LET got == MapGenerator_get(c.type_id_map, id)
      ins == MapGenerator_insert(c.type_id_map, id)
  IN IF got # None THEN [ctx |-> c, ret |-> got[1]]
     ELSE [ctx |-> [c EXCEPT !.type_id_map = ins.gen], ret |-> ins.ret]

register_type_decl_id_repush(c, id) ==
  LET got == MapGenerator_get(c.type_id_map, id)
      ins == MapGenerator_insert(c.type_id_map, id)
  IN IF got # None
     THEN [ctx |-> push_id(c, AnyRustId("Type", id), AnyTransId("Type", got[1])),
           ret |-> got[1]]
     ELSE [ctx |-> push_id([c EXCEPT !.type_id_map = ins.gen],
                           AnyRustId("Type", id), AnyTransId("Type", ins.ret)),
           ret |-> ins.ret]

register_type_decl_id(c, id) ==
  LET got == MapGenerator_get(c.type_id_map, id)
      ins == MapGenerator_insert(c.type_id_map, id)
  IN IF got # None THEN [ctx |-> c, ret |-> got[1]]
     ELSE [ctx |-> push_id([c EXCEPT !.type_id_map = ins.gen],
                           AnyRustId("Type", id), AnyTransId("Type", ins.ret)),
           ret |-> ins.ret]

translate_type_decl_id(c, id) == register_type_decl_id(c, id)

register_fun_decl_id_no_lookup(c, id) ==
  LET ins == MapGenerator_insert(c.fun_id_map, id)
  IN [ctx |-> push_id([c EXCEPT !.fun_id_map = ins.gen],
                      AnyRustId("Fun", id), AnyTransId("Fun", ins.ret)),
      ret |-> ins.ret]

register_fun_decl_id(c, id) ==
  LET got == MapGenerator_get(c.fun_id_map, id)
      ins == MapGenerator_insert(c.fun_id_map, id)
  IN IF got # None THEN [ctx |-> c, ret |-> got[1]]
     ELSE [ctx |-> push_id([c EXCEPT !.fun_id_map = ins.gen],
                           AnyRustId("Fun", id), AnyTransId("Fun", ins.ret)),
           ret |-> ins.ret]

translate_fun_decl_id(c, id) == register_fun_decl_id(c, id)

register_global_decl_id(c, id) ==
  LET got == MapGenerator_get(c.global_id_map, id)
      ins == MapGenerator_insert(c.global_id_map, id)
  IN IF got # None THEN [ctx |-> c, ret |-> got[1]]
     ELSE [ctx |-> push_id([c EXCEPT !.global_id_map = ins.gen],
                           AnyRustId("Global", id), AnyTransId("Global", ins.ret)),
           ret |-> ins.ret]

translate_global_decl_id(c, id) == register_global_decl_id(c, id)

(***************************************************************************)
(* Constant translation: the unevaluated constants (translate_constants.rs)*)
(***************************************************************************)
ConstantId(id) == [tag |-> "ConstantId", id |-> id]

Literal(lit) == [tag |-> "Literal", lit |-> lit]

Scalar(int_ty, value) == [tag |-> "Scalar", ty |-> int_ty, value |-> value]

Bool(bv) == [tag |-> "Bool", ty |-> "Bool", value |-> bv]

Char(cv) == [tag |-> "Char", ty |-> "Char", value |-> cv]

Adt(variant_id, fields) ==
  [tag |-> "Adt", variant_id |-> variant_id, fields |-> fields]

StaticId(id) == [tag |-> "StaticId", id |-> id]

OperandConstantValue_Var(id) == [tag |-> "Var", id |-> id]

Panic(msg) == [tag |-> "Panic", msg |-> msg]

(***************************************************************************)
(* Integers of up to 128 bits, as little-endian sequences of bytes; an     *)
(* integer value is a sign and a magnitude.                                *)
(***************************************************************************)
Bytes == 0..255

Zeros(n) == [i \in 1..n |-> 0]

\* The bytes of the small natural number n in 0..255, on size bytes.
SmallBytes(n, size) == [i \in 1..size |-> IF i = 1 THEN n ELSE 0]

RECURSIVE add_one(_)
add_one(bytes) ==
  IF bytes = <<>> THEN <<>>
  ELSE IF Head(bytes) = 255 THEN <<0>> \o add_one(Tail(bytes))
  ELSE <<Head(bytes) + 1>> \o Tail(bytes)

\* Two's complement negation, on the width of the sequence.
twos_complement(bytes) == add_one([i \in DOMAIN bytes |-> 255 - bytes[i]])

top_bit(bytes) == bytes # <<>> /\ bytes[Len(bytes)] >= 128

IntValue(neg, mag) == [neg |-> neg, mag |-> mag]

SignedIntegerTys == {"Isize", "I8", "I16", "I32", "I64", "I128"}

UnsignedIntegerTys == {"Usize", "U8", "U16", "U32", "U64", "U128"}

IntegerTys == SignedIntegerTys \cup UnsignedIntegerTys

is_signed(int_ty) == int_ty \in SignedIntegerTys

\* The host's size_of::<isize>() and size_of::<usize>(), in bytes.
size_of_isize == 8

\* The number of bytes of an integer type.
IntegerTy_size(int_ty) ==
  CASE int_ty \in {"I8", "U8"} -> 1
    [] int_ty \in {"I16", "U16"} -> 2
    [] int_ty \in {"I32", "U32"} -> 4
    [] int_ty \in {"I64", "U64"} -> 8
    [] int_ty \in {"I128", "U128"} -> 16
    [] int_ty \in {"Isize", "Usize"} -> 8

\* The small integer n (-255..255) as a value of the integer type.
SmallInt(int_ty, n) ==
  IF n < 0 THEN IntValue(TRUE, SmallBytes(0 - n, IntegerTy_size(int_ty)))
  ELSE IntValue(FALSE, SmallBytes(n, IntegerTy_size(int_ty)))

(***************************************************************************)
(* The host's scalars (mir::interpret::Scalar) and their conversions.      *)
(***************************************************************************)
Scalar_Int(size, data) == [tag |-> "Int", size |-> size, data |-> data]

Scalar_Ptr(alloc) == [tag |-> "Ptr", size |-> size_of_isize, alloc |-> alloc]

\* The bits of a scalar read at a size: an error for a pointer and for an
\* integer of another size.
Scalar_to_bits(scalar, size) ==
  IF scalar.tag = "Int" /\ scalar.size = size THEN Some(scalar.data) ELSE None

Scalar_to_uint(scalar, size) ==
  LET r == Scalar_to_bits(scalar, size)
  IN IF r = None THEN None ELSE Some(IntValue(FALSE, r[1]))

Scalar_to_int(scalar, size) ==
  LET r == Scalar_to_bits(scalar, size)
  IN IF r = None THEN None
     ELSE IF top_bit(r[1]) THEN Some(IntValue(TRUE, twos_complement(r[1])))
     ELSE Some(IntValue(FALSE, r[1]))

Scalar_to_bool(scalar) ==
  LET r == Scalar_to_bits(scalar, 1)
  IN IF r = None THEN None
     ELSE IF r[1] = <<0>> THEN Some(FALSE)
     ELSE IF r[1] = <<1>> THEN Some(TRUE)
     ELSE None

\* A scalar value of Unicode: below 0x110000 and not a surrogate.
is_char(bytes) ==
  /\ Len(bytes) = 4
  /\ bytes[4] = 0
  /\ bytes[3] <= 16
  /\ ~(bytes[3] = 0 /\ bytes[2] \in 216..223)

Scalar_to_char(scalar) ==
  LET r == Scalar_to_bits(scalar, 4)
  IN IF r = None THEN None
     ELSE IF is_char(r[1]) THEN Some(r[1]) ELSE None

(***************************************************************************)
(* The types of constants: the host's (TyKind) and the translated (ETy).   *)
(***************************************************************************)
ETy(k, lit, id, fields) == [k |-> k, lit |-> lit, id |-> id, fields |-> fields]

Ty_Literal(lit) == ETy("Literal", lit, 0, <<>>)

\* Ty::Adt(TypeId::Adt(id), [], field_tys, [])
Ty_Adt(id, field_tys) == ETy("Adt", "", id, field_tys)

\* Ty::Adt(TypeId::Tuple, [], field_tys, [])
Ty_Tuple(field_tys) == ETy("Tuple", "", 0, field_tys)

\* Ty::Ref(ErasedRegion::Erased, ty, RefKind::Shared)
Ty_Ref(ty) == ETy("Ref", "", 0, <<ty>>)

Ty_Str == ETy("Str", "", 0, <<>>)

is_unit(ty) == ty.k = "Tuple" /\ ty.fields = <<>>

TyKind(kind, ity, def, substs, shared_erased) ==
  [kind |-> kind, ity |-> ity, def |-> def, substs |-> substs,
   shared_erased |-> shared_erased]

TyKind_Bool == TyKind("Bool", "", 0, <<>>, FALSE)

TyKind_Char == TyKind("Char", "", 0, <<>>, FALSE)

TyKind_Int(int_ty) == TyKind("Int", int_ty, 0, <<>>, FALSE)

TyKind_Uint(uint_ty) == TyKind("Uint", uint_ty, 0, <<>>, FALSE)

TyKind_Float == TyKind("Float", "", 0, <<>>, FALSE)

TyKind_Adt(def, substs) == TyKind("Adt", "", def, substs, FALSE)

TyKind_Tuple(substs) == TyKind("Tuple", "", 0, substs, FALSE)

\* A reference; shared_erased: immutable and with an erased region.
TyKind_Ref(ref_ty, shared_erased) == TyKind("Ref", "", 0, <<ref_ty>>, shared_erased)

TyKind_Str == TyKind("Str", "", 0, <<>>, FALSE)

Res(c, ret) == [ctx |-> c, ret |-> ret]

is_panic(ret) == ret.tag = "Panic"

\* The identifier of the type of a local ADT.
translate_type_id(c, did) == translate_type_decl_id(c, did)

RECURSIVE translate_ety(_, _)
RECURSIVE translate_etys(_, _, _)
\* The translation of the types of a substitution, in order, onto acc.
translate_etys(c, substs, acc) ==
  IF substs = <<>> THEN Res(c, [tag |-> "Tys", tys |-> acc])
  ELSE LET rest(r) ==
             IF is_panic(r.ret) THEN r
             ELSE translate_etys(r.ctx, Tail(substs), Append(acc, r.ret.ty))
       IN rest(translate_ety(c, Head(substs)))

\* The translation of a type with erased regions; a type that is not
\* supported is an error, which the callers unwrap.
translate_ety(c, ty) ==
  CASE ty.kind = "Bool" -> Res(c, [tag |-> "Ty", ty |-> Ty_Literal("Bool")])
    [] ty.kind = "Char" -> Res(c, [tag |-> "Ty", ty |-> Ty_Literal("Char")])
    [] ty.kind \in {"Int", "Uint"} ->
         Res(c, [tag |-> "Ty", ty |-> Ty_Literal(ty.ity)])
    [] ty.kind = "Tuple" ->
         LET tuple(r) ==
               IF is_panic(r.ret) THEN r
               ELSE Res(r.ctx, [tag |-> "Ty", ty |-> Ty_Tuple(r.ret.tys)])
         IN tuple(translate_etys(c, ty.substs, <<>>))
    [] ty.kind = "Adt" ->
         LET adt(id, r) ==
               IF is_panic(r.ret) THEN r
               ELSE Res(r.ctx, [tag |-> "Ty", ty |-> Ty_Adt(id, r.ret.tys)])
             params(r1) == adt(r1.ret, translate_etys(r1.ctx, ty.substs, <<>>))
         IN params(translate_type_id(c, ty.def))
    [] ty.kind = "Ref" ->
         LET ref(r) ==
               IF is_panic(r.ret) THEN r
               ELSE Res(r.ctx, [tag |-> "Ty", ty |-> Ty_Ref(r.ret.ty)])
         IN ref(translate_ety(c, ty.substs[1]))
    [] ty.kind = "Str" -> Res(c, [tag |-> "Ty", ty |-> Ty_Str])
    [] OTHER -> Res(c, Panic("unwrap"))

RECURSIVE translate_constant_scalar_type(_, _)
translate_constant_scalar_type(c, ty) ==
  CASE ty.kind = "Bool" -> Res(c, [tag |-> "Ty", ty |-> Ty_Literal("Bool")])
    [] ty.kind = "Char" -> Res(c, [tag |-> "Ty", ty |-> Ty_Literal("Char")])
    [] ty.kind = "Int" -> Res(c, [tag |-> "Ty", ty |-> Ty_Literal(ty.ity)])
    [] ty.kind = "Uint" -> Res(c, [tag |-> "Ty", ty |-> Ty_Literal(ty.ity)])
    [] ty.kind = "Adt" ->
         IF ty.substs # <<>> THEN Res(c, Panic("assert"))
         ELSE LET adt(r) == Res(r.ctx, [tag |-> "Ty", ty |-> Ty_Adt(r.ret, <<>>)])
              IN adt(translate_type_id(c, ty.def))
    [] ty.kind = "Tuple" ->
         IF ty.substs # <<>> THEN Res(c, Panic("assert"))
         ELSE Res(c, [tag |-> "Ty", ty |-> Ty_Tuple(<<>>)])
    [] ty.kind = "Ref" ->
         IF ~ty.shared_erased THEN Res(c, Panic("unreachable"))
         ELSE LET ref(r) ==
                    IF is_panic(r.ret) THEN r
                    ELSE Res(r.ctx, [tag |-> "Ty", ty |-> Ty_Ref(r.ret.ty)])
              IN ref(translate_constant_scalar_type(c, ty.substs[1]))
    [] ty.kind = "Float" -> Res(c, Panic("unreachable"))
    [] OTHER -> Res(c, Panic("unreachable"))

(***************************************************************************)
(* The host's constants: evaluated values (mir::interpret::ConstValue),    *)
(* MIR constants (mir::ConstantKind) and type-level constants (ty::Const). *)
(***************************************************************************)
ConstValue_Scalar(scalar) ==
  [kind |-> "Scalar", scalar |-> scalar, variant |-> None, fields |-> <<>>]

\* A by-reference value, with what try_destructure_mir_constant gives for it.
ConstValue_ByRef(variant, fields) ==
  [kind |-> "ByRef", scalar |-> Scalar_Int(0, <<>>), variant |-> variant,
   fields |-> fields]

ConstValue_Slice ==
  [kind |-> "Slice", scalar |-> Scalar_Int(0, <<>>), variant |-> None,
   fields |-> <<>>]

ConstValue_ZeroSized ==
  [kind |-> "ZeroSized", scalar |-> Scalar_Int(0, <<>>), variant |-> None,
   fields |-> <<>>]

ConstantKind_Ty(const) == [ck |-> "Ty", const |-> const]

ConstantKind_Val(cv, mir_ty) == [ck |-> "Val", cv |-> cv, mir_ty |-> mir_ty]

ConstantKind_Unevaluated(def, mir_ty) ==
  [ck |-> "Unevaluated", def |-> def, mir_ty |-> mir_ty]

\* ty::Const: its kind, its type and what the kind carries.
Const_of(kind, mir_ty, leaf, def, index) ==
  [kind |-> kind, mir_ty |-> mir_ty, leaf |-> leaf, def |-> def, index |-> index]

\* ConstKind::Value(ValTree::Leaf(scalar_int))
ConstKind_Leaf(mir_ty, scalar_int) == Const_of("Leaf", mir_ty, scalar_int, 0, 0)

ConstKind_Branch(mir_ty) == Const_of("Branch", mir_ty, Scalar_Int(0, <<>>), 0, 0)

ConstKind_Expr(mir_ty) == Const_of("Expr", mir_ty, Scalar_Int(0, <<>>), 0, 0)

ConstKind_Unevaluated(mir_ty, def) ==
  Const_of("Unevaluated", mir_ty, Scalar_Int(0, <<>>), def, 0)

ConstKind_Param(mir_ty, index) ==
  Const_of("Param", mir_ty, Scalar_Int(0, <<>>), 0, index)

\* ConstKind::Infer, Bound, Placeholder and Error
ConstKind_Other(kind, mir_ty) == Const_of(kind, mir_ty, Scalar_Int(0, <<>>), 0, 0)

\* The host compiler's evaluation of a constant item (tcx.const_eval_resolve):
\* the constant item d evaluates to the u32 scalar 10 * d.
const_eval_resolve(def_id) ==
  ConstValue_Scalar(Scalar_Int(4, SmallBytes(10 * def_id, 4)))

\* The host's type of the constant item d.
type_of(def_id) == TyKind_Uint("U32")

(***************************************************************************)
(* The type declarations already translated (t_ctx.type_defs).             *)
(***************************************************************************)
\* variants: for an enumeration the number of fields of each variant, for a
\* structure the number of its fields.
TypeDecl(kind, type_params, variants) ==
  [kind |-> kind, type_params |-> type_params, variants |-> variants]

type_defs ==
  (0 :> TypeDecl("Enum", 0, <<0>>))
    @@ (1 :> TypeDecl("Enum", 0, <<0, 0>>))
    @@ (2 :> TypeDecl("Struct", 0, <<0>>))
    @@ (3 :> TypeDecl("Opaque", 0, <<>>))
    @@ (4 :> TypeDecl("Enum", 0, <<1>>))
    @@ (5 :> TypeDecl("Struct", 0, <<1>>))
    @@ (6 :> TypeDecl("Struct", 1, <<0>>))

(***************************************************************************)
(* Constant translation (translate_constants.rs).                          *)
(***************************************************************************)
\* scalar.to_*().unwrap(), wrapped by the variant of the literal.
unwrap_scalar(int_ty, r) ==
  IF r = None THEN Panic("unwrap") ELSE Scalar(int_ty, r[1])

\* The I16 arm reads the scalar as unsigned.
translate_constant_integer_like_value_i16_as_u16(ty, scalar) ==
  IF ty.k = "Literal" /\ ty.lit = "I16"
  THEN unwrap_scalar("I16", Scalar_to_uint(scalar, 2))
  ELSE IF ty.k = "Literal" /\ ty.lit = "Bool"
  THEN LET r == Scalar_to_bool(scalar)
       IN IF r = None THEN Panic("unwrap") ELSE Bool(r[1])
  ELSE IF ty.k = "Literal" /\ ty.lit = "Char"
  THEN LET r == Scalar_to_char(scalar)
       IN IF r = None THEN Panic("unwrap") ELSE Char(r[1])
  ELSE IF ty.k = "Literal" /\ ty.lit \in SignedIntegerTys
  THEN unwrap_scalar(ty.lit, Scalar_to_int(scalar, IntegerTy_size(ty.lit)))
  ELSE IF ty.k = "Literal" /\ ty.lit \in UnsignedIntegerTys
  THEN unwrap_scalar(ty.lit, Scalar_to_uint(scalar, IntegerTy_size(ty.lit)))
  ELSE Panic("unreachable")

translate_constant_integer_like_value(ty, scalar) ==
  IF ty.k # "Literal" THEN Panic("unreachable")
  ELSE CASE ty.lit = "Bool" ->
              LET r == Scalar_to_bool(scalar)
              IN IF r = None THEN Panic("unwrap") ELSE Bool(r[1])
         [] ty.lit = "Char" ->
              LET r == Scalar_to_char(scalar)
              IN IF r = None THEN Panic("unwrap") ELSE Char(r[1])
         [] ty.lit = "Isize" ->
              IF size_of_isize # 8 THEN Panic("assert")
              ELSE unwrap_scalar("Isize", Scalar_to_int(scalar, 8))
         [] ty.lit = "Usize" ->
              IF size_of_isize # 8 THEN Panic("assert")
              ELSE unwrap_scalar("Usize", Scalar_to_uint(scalar, 8))
         [] ty.lit = "I8" -> unwrap_scalar("I8", Scalar_to_int(scalar, 1))
         [] ty.lit = "U8" -> unwrap_scalar("U8", Scalar_to_uint(scalar, 1))
         [] ty.lit = "I16" -> unwrap_scalar("I16", Scalar_to_int(scalar, 2))
         [] ty.lit = "U16" -> unwrap_scalar("U16", Scalar_to_uint(scalar, 2))
         [] ty.lit = "I32" -> unwrap_scalar("I32", Scalar_to_int(scalar, 4))
         [] ty.lit = "U32" -> unwrap_scalar("U32", Scalar_to_uint(scalar, 4))
         [] ty.lit = "I64" -> unwrap_scalar("I64", Scalar_to_int(scalar, 8))
         [] ty.lit = "U64" -> unwrap_scalar("U64", Scalar_to_uint(scalar, 8))
         [] ty.lit = "I128" -> unwrap_scalar("I128", Scalar_to_int(scalar, 16))
         [] ty.lit = "U128" -> unwrap_scalar("U128", Scalar_to_uint(scalar, 16))
         [] OTHER -> Panic("unreachable")

\* A pair (type, value), with the context after the call.
ResTy(c, ety, ret) == [ctx |-> c, ety |-> ety, ret |-> ret]

\* The type of a call that failed.
NoTy == ETy("None", "", 0, <<>>)

\* What tcx.global_alloc gives for the provenance of a pointer.
GlobalAlloc_Static(def) == [kind |-> "Static", def |-> def]

GlobalAlloc_Memory == [kind |-> "Memory", def |-> 0]

translate_constant_scalar_value(c, llbc_ty, scalar) ==
  CASE llbc_ty.k = "Literal" ->
         LET literal(v) == IF is_panic(v) THEN Res(c, v) ELSE Res(c, Literal(v))
         IN literal(translate_constant_integer_like_value(llbc_ty, scalar))
    [] llbc_ty.k = "Adt" ->
         IF llbc_ty.fields # <<>> THEN Res(c, Panic("assert"))
         ELSE IF llbc_ty.id \notin DOMAIN type_defs THEN Res(c, Panic("unwrap"))
         ELSE LET def == type_defs[llbc_ty.id]
              IN IF def.type_params # 0 THEN Res(c, Panic("assert"))
                 ELSE CASE def.kind = "Enum" ->
                             IF Len(def.variants) # 1 THEN Res(c, Panic("assert"))
                             ELSE Res(c, Adt(Some(0), <<>>))
                        [] def.kind = "Struct" -> Res(c, Adt(None, <<>>))
                        [] OTHER -> Res(c, Panic("unreachable"))
    [] llbc_ty.k = "Tuple" ->
         IF llbc_ty.fields # <<>> THEN Res(c, Panic("assert"))
         ELSE Res(c, Adt(None, <<>>))
    [] llbc_ty.k = "Ref" ->
         IF scalar.tag = "Ptr"
         THEN IF scalar.alloc.kind = "Static"
              THEN LET static(r) == Res(r.ctx, StaticId(r.ret))
                   IN static(translate_global_decl_id(c, scalar.alloc.def))
              ELSE Res(c, Panic("unreachable"))
         ELSE Res(c, Panic("unreachable"))
    [] OTHER -> Res(c, Panic("unreachable"))

Min(x, y) == IF x <= y THEN x ELSE y

translate_constant_id_as_top_level(c, rid, mir_ty) ==
  IF ~extract_constants_at_top_level(c.mir_level)
  THEN ResTy(c, NoTy, Panic("assert"))
  ELSE LET pair(id, t) ==
             IF is_panic(t.ret) THEN ResTy(t.ctx, NoTy, t.ret)
             ELSE ResTy(t.ctx, t.ret.ty, ConstantId(id))
           lookup(r) == pair(r.ret, translate_ety(r.ctx, mir_ty))
       IN lookup(translate_global_decl_id(c, rid))

\* ScalarValue::from_int and from_uint: the value, when it is in the bounds of
\* the integer type.
resize(mag, n) == [i \in 1..n |-> IF i <= Len(mag) THEN mag[i] ELSE 0]

magnitude_fits(mag, n) == \A i \in DOMAIN mag : i > n => mag[i] = 0

min_magnitude(n) == [i \in 1..n |-> IF i = n THEN 128 ELSE 0]

ScalarValue_from_int(int_ty, v) ==
  LET n == IntegerTy_size(int_ty)
      m == resize(v.mag, n)
  IN IF ~is_signed(int_ty) THEN Panic("unreachable")
     ELSE IF /\ magnitude_fits(v.mag, n)
             /\ (~top_bit(m) \/ (v.neg /\ m = min_magnitude(n)))
     THEN Scalar(int_ty, IntValue(v.neg, m))
     ELSE Panic("unwrap")

ScalarValue_from_uint(int_ty, v) ==
  LET n == IntegerTy_size(int_ty)
  IN IF is_signed(int_ty) THEN Panic("unreachable")
     ELSE IF magnitude_fits(v.mag, n) /\ ~v.neg
     THEN Scalar(int_ty, IntValue(FALSE, resize(v.mag, n)))
     ELSE Panic("unwrap")

\* The constant generic variable bound to an index in the body context, if any.
const_generic_vars_map_get(c, index) ==
  IF "const_generic_vars_map" \in DOMAIN c
  THEN IF index \in DOMAIN c.const_generic_vars_map
       THEN Some(c.const_generic_vars_map[index]) ELSE None
  ELSE None

RECURSIVE translate_const_value(_, _, _)
RECURSIVE translate_constant_kind(_, _)
RECURSIVE translate_constant_kinds(_, _, _)
\* The translation of the fields of a destructured constant, in order, onto acc.
translate_constant_kinds(c, fields, acc) ==
  IF fields = <<>> THEN Res(c, [tag |-> "Fields", fields |-> acc])
  ELSE LET rest(r) ==
             IF is_panic(r.ret) THEN Res(r.ctx, r.ret)
             ELSE translate_constant_kinds(r.ctx, Tail(fields),
                                           Append(acc, <<r.ety, r.ret>>))
       IN rest(translate_constant_kind(c, Head(fields)))

translate_constant_reference_value(c, llbc_ty, value) ==
  IF value.variant # None THEN Res(c, Panic("assert"))
  ELSE LET sanity(c1, fields) ==
             IF llbc_ty.k # "Tuple" THEN Res(c1, Panic("unreachable"))
             ELSE IF \E i \in 1..Min(Len(fields), Len(llbc_ty.fields)) :
                        fields[i][1] # llbc_ty.fields[i]
             THEN Res(c1, Panic("assert"))
             ELSE Res(c1, Adt(None, [i \in DOMAIN fields |-> fields[i][2]]))
           collected(r) == IF is_panic(r.ret) THEN r ELSE sanity(r.ctx, r.ret.fields)
       IN collected(translate_constant_kinds(c, value.fields, <<>>))

\* A zero-sized constant gives the unit value whatever the type.
translate_const_value_any_zero_sized(c, llbc_ty, val) ==
  CASE val.kind = "Scalar" ->
         translate_constant_scalar_value(c, llbc_ty, val.scalar)
    [] val.kind = "ByRef" -> translate_constant_reference_value(c, llbc_ty, val)
    [] val.kind = "Slice" -> Res(c, Panic("not implemented"))
    [] val.kind = "ZeroSized" -> Res(c, Adt(None, <<>>))

translate_const_value(c, llbc_ty, val) ==
  CASE val.kind = "Scalar" ->
         translate_constant_scalar_value(c, llbc_ty, val.scalar)
    [] val.kind = "ByRef" -> translate_constant_reference_value(c, llbc_ty, val)
    [] val.kind = "Slice" -> Res(c, Panic("not implemented"))
    [] val.kind = "ZeroSized" ->
         IF ~is_unit(llbc_ty) THEN Res(c, Panic("assert"))
         ELSE Res(c, Adt(None, <<>>))

\* The constant is evaluated in place whatever the extraction mode.
translate_const_kind_unevaluated_inline(c, mir_ty, ucv_def) ==
  LET typed(llbc_ty, v) ==
        ResTy(v.ctx, IF is_panic(v.ret) THEN NoTy ELSE llbc_ty, v.ret)
      evaluated(cv, t) ==
        IF is_panic(t.ret) THEN ResTy(t.ctx, NoTy, t.ret)
        ELSE typed(t.ret.ty, translate_const_value(t.ctx, t.ret.ty, cv))
  IN evaluated(const_eval_resolve(ucv_def), translate_ety(c, mir_ty))

\* The constant is referred to by its global whatever the extraction mode.
translate_const_kind_unevaluated_as_global(c, mir_ty, ucv_def) ==
  LET pair(id, t) ==
        IF is_panic(t.ret) THEN ResTy(t.ctx, NoTy, t.ret)
        ELSE ResTy(t.ctx, t.ret.ty, ConstantId(id))
      lookup(r) == pair(r.ret, translate_ety(r.ctx, mir_ty))
  IN lookup(translate_global_decl_id(c, ucv_def))

translate_const_kind_unevaluated(c, mir_ty, ucv_def) ==
  IF extract_constants_at_top_level(c.mir_level)
  THEN translate_constant_id_as_top_level(c, ucv_def, mir_ty)
  ELSE LET typed(llbc_ty, v) ==
             ResTy(v.ctx, IF is_panic(v.ret) THEN NoTy ELSE llbc_ty, v.ret)
           evaluated(cv, t) ==
             IF is_panic(t.ret) THEN ResTy(t.ctx, NoTy, t.ret)
             ELSE typed(t.ret.ty, translate_const_value(t.ctx, t.ret.ty, cv))
       IN evaluated(const_eval_resolve(ucv_def), translate_ety(c, mir_ty))

\* The literal of a leaf of a value tree, by the literal type of the constant.
translate_const_kind_leaf(ty, scalar_int) ==
  IF ty.k # "Literal" THEN Panic("unwrap")
  ELSE CASE ty.lit \in SignedIntegerTys ->
              LET v == Scalar_to_int(scalar_int, scalar_int.size)
              IN IF v = None THEN Panic("unwrap")
                 ELSE ScalarValue_from_int(ty.lit, v[1])
         [] ty.lit \in UnsignedIntegerTys ->
              LET v == Scalar_to_uint(scalar_int, scalar_int.size)
              IN IF v = None THEN Panic("unwrap")
                 ELSE ScalarValue_from_uint(ty.lit, v[1])
         [] ty.lit = "Bool" ->
              LET v == Scalar_to_bool(scalar_int)
              IN IF v = None THEN Panic("unwrap") ELSE Bool(v[1])
         [] ty.lit = "Char" -> Panic("not implemented")
         [] OTHER -> Panic("unreachable")

translate_const_kind(c, constant) ==
  CASE constant.kind \in {"Leaf", "Branch"} ->
         LET literal(c1, ty, v) ==
               IF is_panic(v) THEN ResTy(c1, NoTy, v) ELSE ResTy(c1, ty, Literal(v))
             value(t) ==
               IF is_panic(t.ret) THEN ResTy(t.ctx, NoTy, t.ret)
               ELSE IF constant.kind = "Branch"
               THEN ResTy(t.ctx, NoTy, Panic("not implemented"))
               ELSE literal(t.ctx, t.ret.ty,
                            translate_const_kind_leaf(t.ret.ty, constant.leaf))
         IN value(translate_ety(c, constant.mir_ty))
    [] constant.kind = "Expr" -> ResTy(c, NoTy, Panic("not implemented"))
    [] constant.kind = "Unevaluated" ->
         IF extract_constants_at_top_level(c.mir_level)
         THEN translate_constant_id_as_top_level(c, constant.def, constant.mir_ty)
         ELSE ResTy(c, NoTy, Panic("not implemented"))
    [] constant.kind = "Param" ->
         LET var(c1, ty, cg_id) ==
               IF cg_id = None THEN ResTy(c1, NoTy, Panic("unwrap"))
               ELSE ResTy(c1, ty, OperandConstantValue_Var(cg_id[1]))
             param(t) ==
               IF is_panic(t.ret) THEN ResTy(t.ctx, NoTy, t.ret)
               ELSE var(t.ctx, t.ret.ty,
                        const_generic_vars_map_get(t.ctx, constant.index))
         IN param(translate_ety(c, constant.mir_ty))
    [] OTHER -> ResTy(c, NoTy, Panic("unreachable"))

translate_evaluated_operand_constant(c, mir_ty, val) ==
  LET typed(llbc_ty, v) ==
        ResTy(v.ctx, IF is_panic(v.ret) THEN NoTy ELSE llbc_ty, v.ret)
      evaluated(t) ==
        IF is_panic(t.ret) THEN ResTy(t.ctx, NoTy, t.ret)
        ELSE typed(t.ret.ty, translate_const_value(t.ctx, t.ret.ty, val))
  IN evaluated(translate_ety(c, mir_ty))

translate_constant_kind(c, constant) ==
  CASE constant.ck = "Ty" -> translate_const_kind(c, constant.const)
    [] constant.ck = "Val" ->
         translate_evaluated_operand_constant(c, constant.mir_ty, constant.cv)
    [] constant.ck = "Unevaluated" ->
         translate_const_kind_unevaluated(c, constant.mir_ty, constant.def)

(***************************************************************************)
(* The state of the translation driver.                                    *)
(***************************************************************************)
VARIABLES
  ctx,         \* the translation context
  hir,         \* the items of the crate (input)
  refs,        \* the reference graph of the crate (input)
  pc,          \* "register", "translate" or "done"
  top_items,   \* the items the initial walk has visited
  translated,  \* the declarations popped and translated, in order
  returned,    \* every <<declaration, target id>> a registration returned
  const_vals   \* every <<constant item, value>> a use site was translated to

driver_vars ==
  <<ctx, hir, refs, pc, top_items, translated, returned, const_vals>>

(***************************************************************************)
(* The state of the dead-local elimination pass on one body.               *)
(***************************************************************************)
VARIABLES
  b,               \* the body the pass works on
  old_b,           \* the body as it was handed to the pass
  ppc,             \* the position of transform in the body
  vids_map,        \* the substitution computed by update_locals
  used_locals_cnt, \* the counters computed by ComputeUsedLocals
  lookups,         \* the identifiers UpdateUsedLocals looked up, in order
  rerun            \* None, or Some(outcome) of transform run again on b

pass_vars == <<b, old_b, ppc, vids_map, used_locals_cnt, lookups, rerun>>

(***************************************************************************)
(* One call of a function of the library on an input, and what it gave.    *)
(***************************************************************************)
VARIABLES
  call,    \* the function called and its argument
  result   \* None before the call, Some(outcome) after it

op_vars == <<call, result>>

OpIdle ==
  /\ call = [op |-> "none", arg |-> <<>>]
  /\ result = <<>>

(***************************************************************************)
(* The variables of a body under translation (BodyTransCtx) and the calls  *)
(* that pushed them.                                                       *)
(***************************************************************************)
VARIABLES
  bctx,    \* the counters, vectors and maps of the body context
  bpc,     \* "run", or "panic" once a call has failed
  pushed   \* the calls made on the body context, in order

body_vars == <<bctx, bpc, pushed>>

\* No body is under translation.
BodyIdle ==
  /\ bctx = <<>>
  /\ bpc = "idle"
  /\ pushed = <<>>

\* No pass is running.
PassIdle ==
  /\ b = <<>>
  /\ old_b = <<>>
  /\ ppc = "idle"
  /\ vids_map = <<>>
  /\ used_locals_cnt = <<>>
  /\ lookups = <<>>
  /\ rerun = None

\* The state handed from one reference of a declaration to the next.
DriverState(c, ret, cv) == [ctx |-> c, returned |-> ret, const_vals |-> cv]

Returned(kind, id, tid) == [rid |-> AnyRustId(kind, id), ret |-> tid]

\* One reference to the declaration r met while translating a definition:
\* types and functions are registered; a constant item is met as an
\* unevaluated constant.
translate_reference(st, r) ==
  CASE DeclKindOf(r) = "Type" ->
         LET res == translate_type_decl_id(st.ctx, r)
         IN DriverState(res.ctx, st.returned \cup {Returned("Type", r, res.ret)},
                        st.const_vals)
    [] DeclKindOf(r) = "Fun" ->
         LET res == translate_fun_decl_id(st.ctx, r)
         IN DriverState(res.ctx, st.returned \cup {Returned("Fun", r, res.ret)},
                        st.const_vals)
    [] DeclKindOf(r) = "Global" ->
         LET met(res) ==
               DriverState(res.ctx,
                           IF res.ret.tag = "ConstantId"
                           THEN st.returned \cup {Returned("Global", r, res.ret.id)}
                           ELSE st.returned,
                           st.const_vals \cup {[def |-> r, val |-> res.ret]})
         IN met(translate_const_kind_unevaluated(st.ctx, type_of(r), r))

\* translate_type / translate_function / translate_global: the definition is
\* translated, which meets its references in the order visit.
RECURSIVE translate_decl(_, _)
translate_decl(st, visit) ==
  IF visit = <<>> THEN st
  ELSE translate_decl(translate_reference(st, Head(visit)), Tail(visit))

RefsOf(d) == {e[2] : e \in {x \in refs : x[1] = d}}

\* The orders in which the references of a definition can be met: every
\* reference at least once, at most one of them at two places.
VisitOrders(S) ==
  LET n == Cardinality(S)
  IN {s \in [1..n -> S] \cup [1..(n + 1) -> S] : Range(s) = S}

RECURSIVE register_local_hir_item(_, _, _)
RECURSIVE register_local_hir_items(_, _)
\* for item_id in module.item_ids { self.register_local_hir_item(false, item) }
register_local_hir_items(st, item_ids) ==
  IF item_ids = <<>> THEN st
  ELSE register_local_hir_items(register_local_hir_item(st, FALSE, Head(item_ids)),
                                Tail(item_ids))

\* The item kinds registered, with the modules explored.
register_local_hir_item_kind(st, item) ==
  CASE item.kind = "Struct" ->
         LET res == translate_type_decl_id(st.ctx, item.def_id)
         IN DriverState(res.ctx,
                        st.returned \cup {Returned("Type", item.def_id, res.ret)},
                        st.const_vals)
    [] item.kind = "Fn" ->
         LET res == translate_fun_decl_id(st.ctx, item.def_id)
         IN DriverState(res.ctx,
                        st.returned \cup {Returned("Fun", item.def_id, res.ret)},
                        st.const_vals)
    [] item.kind = "Const" ->
         IF extract_constants_at_top_level(st.ctx.mir_level)
         THEN LET res == translate_global_decl_id(st.ctx, item.def_id)
              IN DriverState(res.ctx,
                             st.returned \cup {Returned("Global", item.def_id, res.ret)},
                             st.const_vals)
         ELSE st
    [] item.kind = "Mod" ->
         IF id_is_opaque(st.ctx, item) THEN st
         ELSE register_local_hir_items(st, item.item_ids)

\* A top item in an opaque module is registered like any other.
register_local_hir_item_no_opaque_check(st, top_item, item) ==
  register_local_hir_item_kind(st, item)

register_local_hir_item(st, top_item, item) ==
  IF top_item /\ hir_item_to_name(item) = None THEN st
  ELSE IF top_item /\ is_opaque_decl(st.ctx.crate_info, hir_item_to_name(item)[1])
  THEN st
  ELSE register_local_hir_item_kind(st, item)

\* translate on a crate without modules and without opaque modules.
DriverInit ==
  /\ ctx \in {TransCtx_new(CrateInfo({}), l) : l \in MirLevels}
  /\ hir = RootItems
  /\ refs \in EdgeSets
  /\ pc = "register"
  /\ top_items = {}
  /\ translated = <<>>
  /\ returned = {}
  /\ const_vals = {}

\* One iteration of the loop over hir.items() of translate.
RegisterItem ==
  /\ pc = "register"
  /\ \E item \in hir :
       LET st == register_local_hir_item(DriverState(ctx, returned, const_vals),
                                         TRUE, item)
       IN /\ Cardinality(top_items \cup {item}) <= MaxTopItems
          /\ ctx' = st.ctx
          /\ returned' = st.returned
          /\ top_items' = top_items \cup {item}
  /\ UNCHANGED <<hir, refs, pc, translated, const_vals>>
  /\ UNCHANGED <<pass_vars, op_vars, body_vars>>

\* The loop over the items is over.
StartTranslate ==
  /\ pc = "register"
  /\ pc' = "translate"
  /\ UNCHANGED <<ctx, hir, refs, top_items, translated, returned, const_vals>>
  /\ UNCHANGED <<pass_vars, op_vars, body_vars>>

\* One iteration of the while loop of translate: the front of the stack is
\* popped and translated.
TranslateNext ==
  /\ pc = "translate"
  /\ LET popped == LinkedHashSet_pop_front(ctx.stack)
     IN /\ popped.ret # None
        /\ \E visit \in VisitOrders(RefsOf(popped.ret[1].id)) :
             LET st == translate_decl(
                         DriverState([ctx EXCEPT !.stack = popped.set],
                                     returned, const_vals), visit)
             IN /\ ctx' = st.ctx
                /\ returned' = st.returned
                /\ const_vals' = st.const_vals
        /\ translated' = Append(translated, popped.ret[1])
  /\ UNCHANGED <<hir, refs, pc, top_items>>
  /\ UNCHANGED <<pass_vars, op_vars, body_vars>>

\* The stack is empty: translate returns the context.
TranslateDone ==
  /\ pc = "translate"
  /\ LinkedHashSet_pop_front(ctx.stack).ret = None
  /\ pc' = "done"
  /\ UNCHANGED <<ctx, hir, refs, top_items, translated, returned, const_vals>>
  /\ UNCHANGED <<pass_vars, op_vars, body_vars>>

vars == <<driver_vars, pass_vars, op_vars, body_vars>>

Init == DriverInit /\ PassIdle /\ OpIdle /\ BodyIdle

Next == RegisterItem \/ StartTranslate \/ TranslateNext \/ TranslateDone

Spec == Init /\ [][Next]_vars

\* translate on a crate with modules, some of them opaque.
WalkInit ==
  /\ PassIdle
  /\ OpIdle
  /\ BodyIdle
  /\ ctx \in {TransCtx_new(CrateInfo(mods), l) : mods \in OpaqueModSets, l \in MirLevels}
  /\ hir = ModuleItems
  /\ refs \in SingleEdgeSets
  /\ pc = "register"
  /\ top_items = {}
  /\ translated = <<>>
  /\ returned = {}
  /\ const_vals = {}

WalkSpec == WalkInit /\ [][Next]_vars

(***************************************************************************)
(* Properties of the translation driver.                                   *)
(***************************************************************************)
\* The declarations registered in the id maps of the context.
RegisteredDecls ==
  {AnyRustId("Type", d) : d \in DOMAIN ctx.type_id_map.map}
    \cup {AnyRustId("Fun", d) : d \in DOMAIN ctx.fun_id_map.map}
    \cup {AnyRustId("Global", d) : d \in DOMAIN ctx.global_id_map.map}

\* A declaration translated earlier is referenced by one translated later.
ReferencedAfterTranslation ==
  \E i, j \in DOMAIN translated :
    i < j /\ <<translated[j].id, translated[i].id>> \in refs

\* C1: registering a source declaration which is already registered returns
\* the target identifier of the first registration and leaves the context
\* (the stack, all_ids, the id maps) unchanged, in every state of a run,
\* also after the declaration was popped and translated; and all the
\* registrations of a declaration have returned the same identifier.
C1_RegistrationIdempotent ==
  /\ \A d \in DOMAIN ctx.type_id_map.map :
       register_type_decl_id(ctx, d) = [ctx |-> ctx, ret |-> ctx.type_id_map.map[d]]
  /\ \A d \in DOMAIN ctx.fun_id_map.map :
       register_fun_decl_id(ctx, d) = [ctx |-> ctx, ret |-> ctx.fun_id_map.map[d]]
  /\ \A d \in DOMAIN ctx.global_id_map.map :
       register_global_decl_id(ctx, d) = [ctx |-> ctx, ret |-> ctx.global_id_map.map[d]]
  /\ \A r1, r2 \in returned : r1.rid = r2.rid => r1.ret = r2.ret
  /\ \A r \in returned : r.rid \in RegisteredDecls
  /\ \A x \in RegisteredDecls :
       Cardinality({i \in DOMAIN ctx.pushes : ctx.pushes[i] = x}) = 1

C1_Witness ==
  /\ ReferencedAfterTranslation
  /\ ctx.stack # <<>>

\* C2: no declaration is translated more than once, and a translated
\* declaration is never on the work-list again.
C2_TranslatedOnce ==
  /\ NoDup(translated)
  /\ \A i \in DOMAIN translated : translated[i] \notin Range(ctx.stack)

C2_Witness ==
  /\ pc = "done"
  /\ ReferencedAfterTranslation

\* The position of translate: the loop over the items, the work-list loop,
\* the return.
Rank == CASE pc = "register" -> 2 [] pc = "translate" -> 1 [] pc = "done" -> 0

\* The steps translate can still take: the items not yet registered and the
\* declarations not yet translated, for each position still to go through.
Measure ==
  Rank * (MaxTopItems + NumDefIds + 1)
    + (MaxTopItems - Cardinality(top_items))
    + (NumDefIds - Len(translated))

\* translate can take a step: the loop over the items can always end, and the
\* work-list loop either exits or pops a declaration and translates it.
CanStep ==
  \/ pc = "register"
  \/ /\ pc = "translate"
     /\ \/ ctx.stack = <<>>
        \/ VisitOrders(RefsOf(Head(ctx.stack).id)) # {}

\* C3: the work-list loop terminates, cyclic references included: translate
\* is never stuck before it returns and every step which changes the state
\* decreases a measure which is never negative; and when translate returns the
\* work-list is empty and every registered declaration has been popped and
\* translated.
C3_Terminates ==
  /\ [](/\ Measure >= 0
        /\ (pc # "done" => CanStep)
        /\ (pc = "done" =>
              /\ ctx.stack = <<>>
              /\ RegisteredDecls \subseteq Range(translated)))
  /\ [][Measure' < Measure]_vars

C3_Witness ==
  /\ pc = "done"
  /\ \E x, y \in DefIds :
       /\ x # y
       /\ <<x, y>> \in refs /\ <<y, x>> \in refs
       /\ AnyRustId(DeclKindOf(x), x) \in Range(translated)
       /\ AnyRustId(DeclKindOf(y), y) \in Range(translated)

\* A reference to a constant item leads to a declaration only when the
\* constants are extracted at top level; so does an item of the crate.
LeadsToDecl(d) ==
  DeclKindOf(d) = "Global" => extract_constants_at_top_level(ctx.mir_level)

RECURSIVE ReachableFrom(_)
ReachableFrom(S) ==
  LET T == S \cup {e[2] : e \in {x \in refs : x[1] \in S /\ LeadsToDecl(x[2])}}
  IN IF T = S THEN S ELSE ReachableFrom(T)

RECURSIVE DeclsIn(_)
\* The declarations among the items of a sequence and of the modules in it.
DeclsIn(items) ==
  IF items = <<>> THEN {}
  ELSE (IF Head(items).kind = "Mod" THEN DeclsIn(Head(items).item_ids)
        ELSE {Head(items).def_id})
         \cup DeclsIn(Tail(items))

\* The name is in a module that is opaque.
InOpaqueModule(name) ==
  \E i \in 2..Len(name) : name[i] \in ctx.crate_info.opaque_mods

\* The declarations the initial walk has met: the items visited, and the
\* items of the modules visited, that are not in an opaque module.
WalkRoots ==
  UNION {DeclsIn(<<item>>) : item \in {x \in top_items : ~InOpaqueModule(x.name)}}

\* C4: whatever the order of the initial registrations and of the references
\* met during the translation, a run translates exactly the declarations
\* reachable from the initially registered ones, each once.
C4_OrderIndependent ==
  pc = "done" =>
    /\ Range(translated) =
         {AnyRustId(DeclKindOf(d), d) :
            d \in ReachableFrom({x \in WalkRoots : LeadsToDecl(x)})}
    /\ NoDup(translated)

C4_Witness ==
  /\ pc = "done"
  /\ Cardinality(top_items) = 1
  /\ Len(translated) >= 3

\* C5: when the constants are extracted at top level, every use of a constant
\* item is translated to ConstantId of the global identifier registered for
\* the item, and the global declaration was pushed on the work-list once.
C5_ConstantIdOnce ==
  extract_constants_at_top_level(ctx.mir_level) =>
    \A cv \in const_vals :
      /\ cv.def \in DOMAIN ctx.global_id_map.map
      /\ cv.val = ConstantId(ctx.global_id_map.map[cv.def])
      /\ Cardinality({i \in DOMAIN ctx.pushes :
                        ctx.pushes[i] = AnyRustId("Global", cv.def)}) = 1
      /\ AnyRustId("Global", cv.def) \in Range(ctx.stack) \cup Range(translated)

C5_Witness ==
  /\ extract_constants_at_top_level(ctx.mir_level)
  /\ \E g, x, y \in DefIds :
       /\ x # y
       /\ <<x, g>> \in refs /\ <<y, g>> \in refs
       /\ AnyRustId(DeclKindOf(x), x) \in Range(translated)
       /\ AnyRustId(DeclKindOf(y), y) \in Range(translated)
       /\ g \in DOMAIN ctx.global_id_map.map
       /\ [def |-> g, val |-> ConstantId(ctx.global_id_map.map[g])] \in const_vals

\* The declarations located in an opaque module.
OpaqueDecls ==
  {AnyRustId(DeclKindOf(item.def_id), item.def_id) :
     item \in {x \in hir : x.kind # "Mod" /\ InOpaqueModule(x.name)}}

\* C25: during the initial registration phase of translate no declaration
\* located in an opaque module is pushed onto the work-list (a top-level item
\* whose name is in an opaque module is ignored, the items of an opaque module
\* are not explored); such a declaration is registered only later, as a
\* reference of a declaration that was translated.
C25_OpaqueNotRegisteredByWalk ==
  \A x \in OpaqueDecls :
    /\ pc = "register" =>
         /\ x \notin Range(ctx.stack)
         /\ x \notin Range(ctx.pushes)
         /\ x \notin RegisteredDecls
    /\ x \in RegisteredDecls =>
         \E i \in DOMAIN translated : <<translated[i].id, x.id>> \in refs

C25_Witness ==
  /\ pc = "register"
  /\ \E item \in top_items : item.kind # "Mod" /\ InOpaqueModule(item.name)
  /\ \E item \in top_items : item.kind = "Mod" /\ InOpaqueModule(item.name)
  /\ OpaqueDecls # {}

(***************************************************************************)
(* Bounds of the bodies handed to the dead-local elimination pass.         *)
(***************************************************************************)
\* Number of locals of a body.
NumLocals == 3
\* Largest number of input arguments of a body.
MaxArgs == 1

(***************************************************************************)
(* The value and expression model: types, locals, places, operands,        *)
(* rvalues, calls and statements.                                          *)
(***************************************************************************)
VarIds == 0..(NumLocals - 1)

\* Types, as the path of type constructors down to the innermost type.
Tys == {<<"U32">>, <<"Never">>, <<"Box", "Never">>}

is_never(ty) == ty = <<"Never">>

contains_never(ty) == \E i \in DOMAIN ty : ty[i] = "Never"

Var(index, name, ty) == [index |-> index, name |-> name, ty |-> ty]

Place(var_id, projection) == [var_id |-> var_id, projection |-> projection]

Deref == [kind |-> "Deref", var |-> 0]

Field == [kind |-> "Field", var |-> 0]

Index(var) == [kind |-> "Index", var |-> var]

Copy(p) == [kind |-> "Copy", place |-> p]

Move(p) == [kind |-> "Move", place |-> p]

ConstOf(cv) == [kind |-> "Const", place |-> <<>>, cv |-> cv]

Const == ConstOf(Literal(Scalar("U32", SmallInt("U32", 0))))

Use(o) == [kind |-> "Use", ops |-> <<o>>, places |-> <<>>]

Ref(p) == [kind |-> "Ref", ops |-> <<>>, places |-> <<p>>]

UnaryOp(o) == [kind |-> "UnaryOp", ops |-> <<o>>, places |-> <<>>]

BinaryOp(o1, o2) == [kind |-> "BinaryOp", ops |-> <<o1, o2>>, places |-> <<>>]

Discriminant(p) == [kind |-> "Discriminant", ops |-> <<>>, places |-> <<p>>]

Aggregate(ops) == [kind |-> "Aggregate", ops |-> ops, places |-> <<>>]

Global == [kind |-> "Global", ops |-> <<>>, places |-> <<>>]

LenOf(p) == [kind |-> "Len", ops |-> <<>>, places |-> <<p>>]

Call(args, dest) == [args |-> args, dest |-> dest]

\* Statements: the content and the meta-information.
Statement(kind, fields) == [kind |-> kind, meta |-> 0, fields |-> fields]

Assign(p, rv) == Statement("Assign", <<p, rv>>)

CallSt(c) == Statement("Call", <<c>>)

Nop == Statement("Nop", <<>>)

Return == Statement("Return", <<>>)

Sequence(st1, st2) == Statement("Sequence", <<st1, st2>>)

SwitchIf(scrut, st1, st2) == Statement("Switch", <<scrut, st1, st2>>)

(***************************************************************************)
(* The shared expression visitor (SharedExprVisitor), with the methods     *)
(* ComputeUsedLocals overrides.                                            *)
(***************************************************************************)
\* A method of the visitor is entered on a node: the calls are recorded in
\* the order in which they are made.
Enter(self, hook, node) ==
  [self EXCEPT !.log = Append(@, [hook |-> hook, node |-> node])]

ComputeUsedLocals_new == [kind |-> "ComputeUsedLocals", log |-> <<>>, vars |-> <<>>]

\* A visitor that overrides no method of SharedExprVisitor.
SharedExprVisitor_default == [kind |-> "Default", log |-> <<>>]

ComputeUsedLocals_visit_var_id_no_incr(self, vid) ==
  [self EXCEPT !.vars = (vid :> 1) @@ @]

ComputeUsedLocals_visit_var_id(self, vid) ==
  IF vid \in DOMAIN self.vars
  THEN [self EXCEPT !.vars[vid] = @ + 1]
  ELSE [self EXCEPT !.vars = (vid :> 1) @@ @]

\* fn visit_var_id(&mut self, _: &VarId::Id) {}, unless overridden.
Shared_visit_var_id(self, vid) ==
  IF self.kind = "ComputeUsedLocals"
  THEN ComputeUsedLocals_visit_var_id(Enter(self, "visit_var_id", vid), vid)
  ELSE Enter(self, "visit_var_id", vid)

\* The variable of an Index element is not visited.
Shared_default_visit_projection_elem_no_index(self, pe) ==
  CASE pe.kind = "Deref" -> Enter(self, "visit_deref", <<>>)
    [] pe.kind = "Field" -> Enter(self, "visit_projection_field", pe)
    [] pe.kind = "Index" -> self

Shared_default_visit_projection_elem(self, pe) ==
  CASE pe.kind = "Deref" -> Enter(self, "visit_deref", <<>>)
    [] pe.kind = "Field" -> Enter(self, "visit_projection_field", pe)
    [] pe.kind = "Index" -> Shared_visit_var_id(self, pe.var)

Shared_visit_projection_elem(self, pe) ==
  Shared_default_visit_projection_elem(Enter(self, "visit_projection_elem", pe), pe)

RECURSIVE Shared_visit_projection_elems(_, _)
\* for pe in p.iter() { self.visit_projection_elem(pe) }
Shared_visit_projection_elems(self, p) ==
  IF p = <<>> THEN self
  ELSE Shared_visit_projection_elems(Shared_visit_projection_elem(self, Head(p)),
                                     Tail(p))

Shared_visit_projection(self, p) ==
  Shared_visit_projection_elems(Enter(self, "visit_projection", p), p)

Shared_visit_place(self, p) ==
  Shared_visit_projection(
    Shared_visit_var_id(Enter(self, "visit_place", p), p.var_id), p.projection)

Shared_default_visit_operand(self, o) ==
  CASE o.kind = "Copy" ->
         Shared_visit_place(Enter(self, "visit_copy", o.place), o.place)
    [] o.kind = "Move" ->
         Shared_visit_place(Enter(self, "visit_move", o.place), o.place)
    [] o.kind = "Const" -> Enter(self, "visit_operand_const", o.cv)

Shared_visit_operand(self, o) ==
  Shared_default_visit_operand(Enter(self, "visit_operand", o), o)

RECURSIVE Shared_visit_operands(_, _)
\* for o in ops { self.visit_operand(o) }
Shared_visit_operands(self, ops) ==
  IF ops = <<>> THEN self
  ELSE Shared_visit_operands(Shared_visit_operand(self, Head(ops)), Tail(ops))

\* The right operand is visited first.
Shared_visit_binary_op_right_first(self, o1, o2) ==
  Shared_visit_operand(
    Shared_visit_operand(Enter(self, "visit_binary_op", <<o1, o2>>), o2), o1)

Shared_visit_binary_op(self, o1, o2) ==
  Shared_visit_operand(
    Shared_visit_operand(Enter(self, "visit_binary_op", <<o1, o2>>), o1), o2)

Shared_visit_aggregate(self, ops) ==
  Shared_visit_operands(
    Enter(Enter(self, "visit_aggregate", ops), "visit_aggregate_kind", <<>>), ops)

Shared_default_visit_rvalue(self, rv) ==
  CASE rv.kind = "Use" ->
         Shared_visit_operand(Enter(self, "visit_use", rv.ops[1]), rv.ops[1])
    [] rv.kind = "Ref" ->
         Shared_visit_place(Enter(self, "visit_ref", rv.places[1]), rv.places[1])
    [] rv.kind = "UnaryOp" ->
         Shared_visit_operand(Enter(self, "visit_unary_op", rv.ops[1]), rv.ops[1])
    [] rv.kind = "BinaryOp" -> Shared_visit_binary_op(self, rv.ops[1], rv.ops[2])
    [] rv.kind = "Discriminant" ->
         Shared_visit_place(Enter(self, "visit_discriminant", rv.places[1]),
                            rv.places[1])
    [] rv.kind = "Aggregate" -> Shared_visit_aggregate(self, rv.ops)
    [] rv.kind = "Global" -> Enter(self, "visit_global", <<>>)
    [] rv.kind = "Len" ->
         Shared_visit_place(Enter(self, "visit_len", rv.places[1]), rv.places[1])

Shared_visit_rvalue(self, rv) ==
  Shared_default_visit_rvalue(Enter(self, "visit_rvalue", rv), rv)

Shared_visit_call(self, c) ==
  Shared_visit_place(
    Shared_visit_operands(
      Enter(Enter(self, "visit_call", c), "visit_fun_id", <<>>), c.args),
    c.dest)

(***************************************************************************)
(* The shared statement visitor (SharedAstVisitor); spawn runs the         *)
(* sub-traversal on the visitor itself and merge does nothing, as          *)
(* ComputeUsedLocals implements them.                                      *)
(***************************************************************************)
RECURSIVE Shared_visit_statement(_, _)
Shared_visit_statement(self, st) ==
  CASE st.kind = "Assign" ->
         Shared_visit_rvalue(Shared_visit_place(self, st.fields[1]), st.fields[2])
    [] st.kind = "Call" -> Shared_visit_call(self, st.fields[1])
    [] st.kind = "Sequence" ->
         Shared_visit_statement(Shared_visit_statement(self, st.fields[1]),
                                st.fields[2])
    [] st.kind = "Switch" ->
         Shared_visit_statement(
           Shared_visit_statement(Shared_visit_operand(self, st.fields[1]),
                                  st.fields[2]),
           st.fields[3])
    [] OTHER -> self

ComputeUsedLocals_compute_in_statement(st) ==
  Shared_visit_statement(ComputeUsedLocals_new, st).vars

(***************************************************************************)
(* The mutating expression and statement visitors (MutExprVisitor,         *)
(* MutAstVisitor), with the methods UpdateUsedLocals overrides. A visit    *)
(* returns the visitor and the node as rewritten.                          *)
(***************************************************************************)
Visited(self, node) == [self |-> self, node |-> node]

\* The identifiers on which visit_var_id was called, in order.
VarIdsVisited(log) ==
  LET calls == SelectSeq(log, LAMBDA e : e.hook = "visit_var_id")
  IN [i \in DOMAIN calls |-> calls[i].node]

UpdateUsedLocals_new(map) ==
  [kind |-> "UpdateUsedLocals", log |-> <<>>, vids_map |-> map, failed |-> FALSE]

\* A visitor that overrides no method of MutExprVisitor.
MutExprVisitor_default == [kind |-> "Default", log |-> <<>>]

UpdateUsedLocals_visit_var_id_keep(self, vid) == Visited(self, vid)

\* *vid = *self.vids_map.get(vid).unwrap(): a miss is a fatal failure.
UpdateUsedLocals_visit_var_id(self, vid) ==
  IF vid \in DOMAIN self.vids_map
  THEN Visited(self, self.vids_map[vid])
  ELSE Visited([self EXCEPT !.failed = TRUE], vid)

\* fn visit_var_id(&mut self, _: &mut VarId::Id) {}, unless overridden.
Mut_visit_var_id(self, vid) ==
  IF self.kind = "UpdateUsedLocals"
  THEN UpdateUsedLocals_visit_var_id(Enter(self, "visit_var_id", vid), vid)
  ELSE Visited(Enter(self, "visit_var_id", vid), vid)

Mut_default_visit_projection_elem(self, pe) ==
  CASE pe.kind = "Deref" -> Visited(Enter(self, "visit_deref", <<>>), pe)
    [] pe.kind = "Field" -> Visited(Enter(self, "visit_projection_field", pe), pe)
    [] pe.kind = "Index" ->
         LET index(r) == Visited(r.self, [pe EXCEPT !.var = r.node])
         IN index(Mut_visit_var_id(self, pe.var))

Mut_visit_projection_elem(self, pe) ==
  Mut_default_visit_projection_elem(Enter(self, "visit_projection_elem", pe), pe)

RECURSIVE Mut_visit_projection_elems(_, _)
\* for pe in p.iter_mut() { self.visit_projection_elem(pe) }
Mut_visit_projection_elems(self, p) ==
  IF p = <<>> THEN Visited(self, <<>>)
  ELSE LET cons(r1, r2) == Visited(r2.self, <<r1.node>> \o r2.node)
           rest(r1) == cons(r1, Mut_visit_projection_elems(r1.self, Tail(p)))
       IN rest(Mut_visit_projection_elem(self, Head(p)))

Mut_visit_projection(self, p) ==
  Mut_visit_projection_elems(Enter(self, "visit_projection", p), p)

\* The base of the place keeps its identifier.
Mut_visit_place_keep_base(self, p) ==
  LET place(r1, r2) == Visited(r2.self, Place(p.var_id, r2.node))
      projection(r1) == place(r1, Mut_visit_projection(r1.self, p.projection))
  IN projection(Mut_visit_var_id(Enter(self, "visit_place", p), p.var_id))

Mut_visit_place(self, p) ==
  LET place(r1, r2) == Visited(r2.self, Place(r1.node, r2.node))
      projection(r1) == place(r1, Mut_visit_projection(r1.self, p.projection))
  IN projection(Mut_visit_var_id(Enter(self, "visit_place", p), p.var_id))

Mut_default_visit_operand(self, o) ==
  LET operand(r) == Visited(r.self, [o EXCEPT !.place = r.node])
  IN CASE o.kind = "Copy" ->
            operand(Mut_visit_place(Enter(self, "visit_copy", o.place), o.place))
       [] o.kind = "Move" ->
            operand(Mut_visit_place(Enter(self, "visit_move", o.place), o.place))
       [] o.kind = "Const" -> Visited(Enter(self, "visit_operand_const", o.cv), o)

Mut_visit_operand(self, o) ==
  Mut_default_visit_operand(Enter(self, "visit_operand", o), o)

RECURSIVE Mut_visit_operands(_, _)
\* for o in ops { self.visit_operand(o) }
Mut_visit_operands(self, ops) ==
  IF ops = <<>> THEN Visited(self, <<>>)
  ELSE LET cons(r1, r2) == Visited(r2.self, <<r1.node>> \o r2.node)
           rest(r1) == cons(r1, Mut_visit_operands(r1.self, Tail(ops)))
       IN rest(Mut_visit_operand(self, Head(ops)))

\* The operands are stored in the other order.
Mut_visit_binary_op_swapped(self, o1, o2) ==
  LET both(r1, r2) == Visited(r2.self, <<r2.node, r1.node>>)
      right(r1) == both(r1, Mut_visit_operand(r1.self, o2))
  IN right(Mut_visit_operand(Enter(self, "visit_binary_op", <<o1, o2>>), o1))

Mut_visit_binary_op(self, o1, o2) ==
  LET both(r1, r2) == Visited(r2.self, <<r1.node, r2.node>>)
      right(r1) == both(r1, Mut_visit_operand(r1.self, o2))
  IN right(Mut_visit_operand(Enter(self, "visit_binary_op", <<o1, o2>>), o1))

Mut_visit_aggregate(self, ops) ==
  Mut_visit_operands(
    Enter(Enter(self, "visit_aggregate", ops), "visit_aggregate_kind", <<>>), ops)

Mut_default_visit_rvalue(self, rv) ==
  LET with_ops(r) == Visited(r.self, [rv EXCEPT !.ops = r.node])
      with_op(r) == Visited(r.self, [rv EXCEPT !.ops = <<r.node>>])
      with_place(r) == Visited(r.self, [rv EXCEPT !.places = <<r.node>>])
  IN CASE rv.kind = "Use" ->
            with_op(Mut_visit_operand(Enter(self, "visit_use", rv.ops[1]), rv.ops[1]))
       [] rv.kind = "Ref" ->
            with_place(Mut_visit_place(Enter(self, "visit_ref", rv.places[1]),
                                       rv.places[1]))
       [] rv.kind = "UnaryOp" ->
            with_op(Mut_visit_operand(Enter(self, "visit_unary_op", rv.ops[1]),
                                      rv.ops[1]))
       [] rv.kind = "BinaryOp" ->
            with_ops(Mut_visit_binary_op(self, rv.ops[1], rv.ops[2]))
       [] rv.kind = "Discriminant" ->
            with_place(Mut_visit_place(Enter(self, "visit_discriminant", rv.places[1]),
                                       rv.places[1]))
       [] rv.kind = "Aggregate" -> with_ops(Mut_visit_aggregate(self, rv.ops))
       [] rv.kind = "Global" -> Visited(Enter(self, "visit_global", <<>>), rv)
       [] rv.kind = "Len" ->
            with_place(Mut_visit_place(Enter(self, "visit_len", rv.places[1]),
                                       rv.places[1]))

Mut_visit_rvalue(self, rv) ==
  Mut_default_visit_rvalue(Enter(self, "visit_rvalue", rv), rv)

\* The destination is visited before the arguments.
Mut_visit_call_dest_first(self, c) ==
  LET call_of(r1, r2) == Visited(r2.self, Call(r2.node, r1.node))
      args(r1) == call_of(r1, Mut_visit_operands(r1.self, c.args))
  IN args(Mut_visit_place(
            Enter(Enter(self, "visit_call", c), "visit_fun_id", <<>>), c.dest))

Mut_visit_call(self, c) ==
  LET call_of(r1, r2) == Visited(r2.self, Call(r1.node, r2.node))
      dest(r1) == call_of(r1, Mut_visit_place(r1.self, c.dest))
  IN dest(Mut_visit_operands(
            Enter(Enter(self, "visit_call", c), "visit_fun_id", <<>>), c.args))

RECURSIVE Mut_visit_statement(_, _)
Mut_visit_statement(self, st) ==
  CASE st.kind = "Assign" ->
         LET assign(r1, r2) ==
               Visited(r2.self, [st EXCEPT !.fields = <<r1.node, r2.node>>])
             rvalue(r1) == assign(r1, Mut_visit_rvalue(r1.self, st.fields[2]))
         IN rvalue(Mut_visit_place(self, st.fields[1]))
    [] st.kind = "Call" ->
         LET called(r) == Visited(r.self, [st EXCEPT !.fields = <<r.node>>])
         IN called(Mut_visit_call(self, st.fields[1]))
    [] st.kind = "Sequence" ->
         LET sequence(r1, r2) ==
               Visited(r2.self, [st EXCEPT !.fields = <<r1.node, r2.node>>])
             second(r1) == sequence(r1, Mut_visit_statement(r1.self, st.fields[2]))
         IN second(Mut_visit_statement(self, st.fields[1]))
    [] st.kind = "Switch" ->
         LET switch(r1, r2, r3) ==
               Visited(r3.self, [st EXCEPT !.fields = <<r1.node, r2.node, r3.node>>])
             otherwise(r1, r2) ==
               switch(r1, r2, Mut_visit_statement(r2.self, st.fields[3]))
             then(r1) == otherwise(r1, Mut_visit_statement(r1.self, st.fields[2]))
         IN then(Mut_visit_operand(self, st.fields[1]))
    [] OTHER -> Visited(self, st)

UpdateUsedLocals_update_statement(map, st) ==
  Mut_visit_statement(UpdateUsedLocals_new(map), st)

(***************************************************************************)
(* update_locals: the used locals, the filtered locals and the map from    *)
(* the old to the new identifiers.                                         *)
(***************************************************************************)
seeded_locals_without_last(num_inputs) == 0..(num_inputs - 1)

\* for i in 0..(num_inputs + 1): the return variable and the input arguments.
seeded_locals(num_inputs) == 0..num_inputs

\* A variable counted once is not taken as used.
used_locals_of_counted_twice(num_inputs, cnt) ==
  seeded_locals(num_inputs) \cup {vid \in DOMAIN cnt : cnt[vid] > 1}

\* The return variable is not taken as used.
used_locals_of_without_return(num_inputs, cnt) ==
  (seeded_locals(num_inputs) \cup {vid \in DOMAIN cnt : cnt[vid] > 0}) \ {0}

used_locals_of(num_inputs, cnt) ==
  seeded_locals(num_inputs) \cup {vid \in DOMAIN cnt : cnt[vid] > 0}

Filtered(locals, map, counter, failed) ==
  [locals |-> locals, vids_map |-> map, var_id_counter |-> counter,
   failed |-> failed]

filter_local_keep_index(acc, var, used_locals) ==
  IF var.index \in used_locals
  THEN Filtered(Append(acc.locals, var),
                (var.index :> acc.var_id_counter) @@ acc.vids_map,
                acc.var_id_counter + 1,
                acc.failed \/ acc.var_id_counter # Len(acc.locals))
  ELSE acc

filter_local_keep_all(acc, var, used_locals) ==
  Filtered(Append(acc.locals, [var EXCEPT !.index = acc.var_id_counter]),
           (var.index :> acc.var_id_counter) @@ acc.vids_map,
           acc.var_id_counter + 1,
           acc.failed \/ acc.var_id_counter # Len(acc.locals))

\* One iteration of the loop over old_locals; the assertion
\* new_id.to_usize() == locals.len() is recorded in failed.
filter_local(acc, var, used_locals) ==
  IF var.index \in used_locals
  THEN Filtered(Append(acc.locals, [var EXCEPT !.index = acc.var_id_counter]),
                (var.index :> acc.var_id_counter) @@ acc.vids_map,
                acc.var_id_counter + 1,
                acc.failed \/ acc.var_id_counter # Len(acc.locals))
  ELSE acc

RECURSIVE filter_locals(_, _, _)
filter_locals(acc, old_locals, used_locals) ==
  IF old_locals = <<>> THEN acc
  ELSE filter_locals(filter_local(acc, Head(old_locals), used_locals),
                     Tail(old_locals), used_locals)

\* The retained locals are checked with is_never.
update_locals_is_never(num_inputs, old_locals, st) ==
  LET cnt == ComputeUsedLocals_compute_in_statement(st)
      res == filter_locals(Filtered(<<>>, <<>>, 0, FALSE), old_locals,
                           used_locals_of(num_inputs, cnt))
  IN [locals |-> res.locals,
      vids_map |-> res.vids_map,
      used_locals_cnt |-> cnt,
      failed |-> \/ res.failed
                 \/ \E i \in DOMAIN res.locals : is_never(res.locals[i].ty)]

\* The result also carries the occurrence counts (the traced used_locals_cnt)
\* and whether one of the assertions failed.
update_locals(num_inputs, old_locals, st) ==
  LET cnt == ComputeUsedLocals_compute_in_statement(st)
      res == filter_locals(Filtered(<<>>, <<>>, 0, FALSE), old_locals,
                           used_locals_of(num_inputs, cnt))
  IN [locals |-> res.locals,
      vids_map |-> res.vids_map,
      used_locals_cnt |-> cnt,
      failed |-> \/ res.failed
                 \/ \E i \in DOMAIN res.locals : contains_never(res.locals[i].ty)]

(***************************************************************************)
(* The bodies the pass is run on: the locals are dense (local i is at      *)
(* position i), the return slot and the arguments are locals 0..arg_count. *)
(***************************************************************************)
SimplePlaces == {Place(v, <<>>) : v \in VarIds}

IndexPlaces == {Place(v[1], <<Deref, Index(v[2])>>) : v \in VarIds \X VarIds}

SelfIndexPlaces == {Place(v, <<Deref, Index(v)>>) : v \in VarIds}

Operands ==
  {Copy(p) : p \in SimplePlaces \cup IndexPlaces}
    \cup {Move(p) : p \in SimplePlaces} \cup {Const}

LeafStatements ==
  {Nop, Return}
    \cup {Assign(x[1], Use(x[2])) : x \in SimplePlaces \X Operands}
    \cup {Assign(x[1], BinaryOp(Copy(x[2]), Copy(x[3]))) :
            x \in SimplePlaces \X SimplePlaces \X SimplePlaces}
    \cup {CallSt(Call(<<Copy(x[1])>>, x[2])) :
            x \in SimplePlaces \X (SimplePlaces \cup IndexPlaces)}

SmallStatements ==
  {Nop} \cup {Assign(x[1], Use(Copy(x[2]))) : x \in SimplePlaces \X SimplePlaces}

BodyStatements ==
  LeafStatements
    \cup {Sequence(x[1], x[2]) : x \in SmallStatements \X SmallStatements}
    \cup {SwitchIf(Copy(x[1]), x[2], x[3]) :
            x \in (SimplePlaces \cup SelfIndexPlaces) \X SmallStatements \X {Nop, Return}}

LocalsOf(tys) == [i \in 1..NumLocals |-> Var(i - 1, Some(i - 1), tys[i])]

Bodies ==
  {[arg_count |-> a, locals |-> LocalsOf(tys), body |-> st] :
     a \in 0..MaxArgs, tys \in [1..NumLocals -> Tys], st \in BodyStatements}

DriverIdle ==
  /\ ctx = TransCtx_new(CrateInfo({}), "Built")
  /\ hir = {}
  /\ refs = {}
  /\ pc = "register"
  /\ top_items = {}
  /\ translated = <<>>
  /\ returned = {}
  /\ const_vals = {}

PassInit ==
  /\ DriverIdle
  /\ OpIdle
  /\ BodyIdle
  /\ b \in Bodies
  /\ old_b = b
  /\ ppc = "start"
  /\ vids_map = <<>>
  /\ used_locals_cnt = <<>>
  /\ lookups = <<>>
  /\ rerun = None

\* let (locals, vids_map) = update_locals(b.arg_count, b.locals, &b.body);
\* b.locals = locals;
UpdateLocals ==
  /\ ppc = "start"
  /\ LET r == update_locals(b.arg_count, b.locals, b.body)
     IN /\ used_locals_cnt' = r.used_locals_cnt
        /\ IF r.failed
           THEN /\ ppc' = "panic"
                /\ UNCHANGED <<b, vids_map>>
           ELSE /\ ppc' = "updated"
                /\ b' = [b EXCEPT !.locals = r.locals]
                /\ vids_map' = r.vids_map
  /\ UNCHANGED <<old_b, lookups, rerun, driver_vars, op_vars, body_vars>>

\* UpdateUsedLocals::update_statement(vids_map, &mut b.body);
UpdateStatement ==
  /\ ppc = "updated"
  /\ LET r == UpdateUsedLocals_update_statement(vids_map, b.body)
     IN /\ lookups' = VarIdsVisited(r.self.log)
        /\ IF r.self.failed
           THEN /\ ppc' = "panic"
                /\ UNCHANGED b
           ELSE /\ ppc' = "rewritten"
                /\ b' = [b EXCEPT !.body = r.node]
  /\ UNCHANGED <<old_b, vids_map, used_locals_cnt, rerun, driver_vars, op_vars, body_vars>>

\* assert!(b.locals.iter().all(|v| !v.ty.is_never()));
CheckNoNever ==
  /\ ppc = "rewritten"
  /\ ppc' = IF \A i \in DOMAIN b.locals : ~is_never(b.locals[i].ty)
            THEN "done" ELSE "panic"
  /\ UNCHANGED <<b, old_b, vids_map, used_locals_cnt, lookups, rerun, driver_vars, op_vars, body_vars>>

\* transform on one body, from the filtering of the locals to the final
\* assertion: the body it leaves, the map it used, whether it failed.
transform(body) ==
  LET rewritten(r, u) ==
        [b |-> [body EXCEPT !.locals = r.locals, !.body = u.node],
         vids_map |-> r.vids_map,
         failed |-> \/ u.self.failed
                    \/ \E i \in DOMAIN r.locals : is_never(r.locals[i].ty)]
      updated(r) ==
        IF r.failed THEN [b |-> body, vids_map |-> <<>>, failed |-> TRUE]
        ELSE rewritten(r, UpdateUsedLocals_update_statement(r.vids_map, body.body))
  IN updated(update_locals(body.arg_count, body.locals, body.body))

\* transform is run a second time, on the body the pass has processed.
TransformAgain ==
  /\ ppc = "done"
  /\ rerun = None
  /\ rerun' = Some(transform(b))
  /\ UNCHANGED <<b, old_b, ppc, vids_map, used_locals_cnt, lookups, driver_vars, op_vars, body_vars>>

PassNext == UpdateLocals \/ UpdateStatement \/ CheckNoNever \/ TransformAgain

PassSpec == PassInit /\ [][PassNext]_vars

(***************************************************************************)
(* The variable occurrences of a statement tree, read off its structure in *)
(* textual order: the base of every place and the variable of every Index  *)
(* projection element.                                                     *)
(***************************************************************************)
IndexElems(projection) == SelectSeq(projection, LAMBDA pe : pe.kind = "Index")

PlaceOccurrences(p) ==
  <<p.var_id>> \o [i \in 1..Len(IndexElems(p.projection)) |->
                     IndexElems(p.projection)[i].var]

OperandOccurrences(o) ==
  IF o.kind \in {"Copy", "Move"} THEN PlaceOccurrences(o.place) ELSE <<>>

RECURSIVE OperandsOccurrences(_)
OperandsOccurrences(ops) ==
  IF ops = <<>> THEN <<>>
  ELSE OperandOccurrences(Head(ops)) \o OperandsOccurrences(Tail(ops))

RvalueOccurrences(rv) ==
  OperandsOccurrences(rv.ops)
    \o (IF rv.places = <<>> THEN <<>> ELSE PlaceOccurrences(rv.places[1]))

RECURSIVE Occurrences(_)
Occurrences(st) ==
  CASE st.kind = "Assign" ->
         PlaceOccurrences(st.fields[1]) \o RvalueOccurrences(st.fields[2])
    [] st.kind = "Call" ->
         OperandsOccurrences(st.fields[1].args)
           \o PlaceOccurrences(st.fields[1].dest)
    [] st.kind = "Sequence" ->
         Occurrences(st.fields[1]) \o Occurrences(st.fields[2])
    [] st.kind = "Switch" ->
         OperandOccurrences(st.fields[1])
           \o Occurrences(st.fields[2]) \o Occurrences(st.fields[3])
    [] OTHER -> <<>>

CountOf(occ, v) == Cardinality({i \in DOMAIN occ : occ[i] = v})

\* The pass has filtered the locals of the body without failing.
LocalsUpdated == ppc \in {"updated", "rewritten", "done"}

\* The name given to old local v identifies it among the new locals.
RetainedAt(v) == {i \in DOMAIN b.locals : b.locals[i].name = Some(v)}

\* C6: after the pass has filtered the locals of a body, the identifiers of
\* the N retained locals are exactly 0..N-1 (both as index fields and as the
\* images of the substitution map), and the local at position i of the new
\* locals vector has index field i.
C6_DenseLocals ==
  LocalsUpdated =>
    /\ \A i \in DOMAIN b.locals : b.locals[i].index = i - 1
    /\ {b.locals[i].index : i \in DOMAIN b.locals} = 0..(Len(b.locals) - 1)
    /\ {vids_map[v] : v \in DOMAIN vids_map} = 0..(Len(b.locals) - 1)

\* A local in the middle was dropped and a later one was renumbered.
C6_Witness ==
  /\ ppc = "done"
  /\ \E v \in DOMAIN vids_map :
       /\ vids_map[v] < v
       /\ b.locals[vids_map[v] + 1].name = Some(v)
       /\ b.locals[vids_map[v] + 1].index = vids_map[v]

\* C7: the return slot (local 0) and every input argument (locals
\* 1..arg_count) are in the locals vector after the pass, at their own
\* positions, whether or not the body references them.
C7_ReturnAndArgsKept ==
  LocalsUpdated =>
    \A i \in 0..old_b.arg_count :
      /\ i \in DOMAIN vids_map
      /\ vids_map[i] = i
      /\ RetainedAt(i) = {i + 1}
      /\ b.locals[i + 1].ty = old_b.locals[i + 1].ty

\* The body references neither the return slot nor the last argument, and
\* another local was removed.
C7_Witness ==
  /\ ppc = "done"
  /\ old_b.arg_count >= 1
  /\ \A i \in 0..old_b.arg_count : CountOf(Occurrences(old_b.body), i) = 0
  /\ Len(b.locals) < Len(old_b.locals)
  /\ \A i \in 0..old_b.arg_count : RetainedAt(i) = {i + 1}

\* C8: the counter compute_in_statement returns for a variable occurring
\* k >= 1 times in the statement tree (as the base of a place or as the
\* variable of an Index projection, in any branch) is k, and a variable that
\* never occurs has no entry.
C8_OccurrenceCounts ==
  ppc # "start" =>
    \A v \in VarIds :
      LET k == CountOf(Occurrences(old_b.body), v)
      IN IF k >= 1
         THEN v \in DOMAIN used_locals_cnt /\ used_locals_cnt[v] = k
         ELSE v \notin DOMAIN used_locals_cnt

\* A variable counted four times: as base and as Index variable of the
\* scrutinee of a switch and twice in a branch, while another variable
\* never occurs.
C8_Witness ==
  /\ ppc # "start"
  /\ old_b.body.kind = "Switch"
  /\ \E v \in DOMAIN used_locals_cnt :
       /\ used_locals_cnt[v] = 4
       /\ old_b.body.fields[1].place = Place(v, <<Deref, Index(v)>>)
       /\ CountOf(Occurrences(old_b.body.fields[2]), v) = 2
  /\ VarIds \ DOMAIN used_locals_cnt # {}

\* C9: the substitution never misses, and after the rewriting every variable
\* reference of the body is the map's image of the identifier that stood at
\* that position before the pass, and indexes the local of the new locals
\* vector that the old identifier named.
C9_ReferencesMapped ==
  /\ ppc = "updated" =>
       \A i \in DOMAIN Occurrences(b.body) :
         Occurrences(b.body)[i] \in DOMAIN vids_map
  /\ ppc \in {"rewritten", "done"} =>
       LET old_occ == Occurrences(old_b.body)
           new_occ == Occurrences(b.body)
       IN /\ Len(new_occ) = Len(old_occ)
          /\ \A i \in DOMAIN old_occ :
               /\ old_occ[i] \in DOMAIN vids_map
               /\ new_occ[i] = vids_map[old_occ[i]]
               /\ new_occ[i] + 1 \in DOMAIN b.locals
               /\ b.locals[new_occ[i] + 1].name = Some(old_occ[i])

\* A base reference and an Index reference were both renumbered.
C9_Witness ==
  /\ ppc = "done"
  /\ old_b.body.kind = "Assign"
  /\ LET old_p == old_b.body.fields[2].ops[1].place
         new_p == b.body.fields[2].ops[1].place
     IN /\ Len(old_p.projection) = 2
        /\ new_p.var_id < old_p.var_id
        /\ new_p.projection[2].var < old_p.projection[2].var

NeverLocals == {v \in VarIds : contains_never(old_b.locals[v + 1].ty)}

Unused(v) == CountOf(Occurrences(old_b.body), v) = 0 /\ v > old_b.arg_count

\* C10: when transform completes on a body no local has the never type, the
\* final check never fails, a never-typed local that the body does not
\* reference and that is outside positions 0..arg_count is removed, and a
\* body whose never-typed locals are all of that sort completes.
C10_NoNeverLocal ==
  /\ ppc \in {"rewritten", "done"} =>
       \A i \in DOMAIN b.locals : ~is_never(b.locals[i].ty)
  /\ LocalsUpdated =>
       \A v \in VarIds :
         (is_never(old_b.locals[v + 1].ty) /\ Unused(v)) =>
           (v \notin DOMAIN vids_map /\ RetainedAt(v) = {})
  /\ (\A v \in NeverLocals : Unused(v)) => ppc # "panic"

\* A body with an unreferenced never-typed local has completed, the local
\* is gone and a referenced local after it was kept.
C10_Witness ==
  /\ ppc = "done"
  /\ \E v \in VarIds :
       /\ is_never(old_b.locals[v + 1].ty)
       /\ Unused(v)
       /\ RetainedAt(v) = {}
       /\ Len(b.locals) = Len(old_b.locals) - 1

(***************************************************************************)
(* Constant values and their serialization (expressions_utils.rs).         *)
(***************************************************************************)
\* Largest number of fields of an Adt constant and of operands of an
\* aggregate.
MaxFields == 2

Ok(out) == [ret |-> [tag |-> "Ok", msg |-> ""], out |-> out]

\* A fatal failure: nothing is handed back to the caller.
Failed(msg, out) == [ret |-> Panic(msg), out |-> out]

\* The serialization of a literal: the variant and its payload, appended to
\* what the serializer has emitted so far.
Literal_serialize(lit, out) ==
  Ok(Append(out, <<lit.tag, lit.ty, lit.value>>))

\* What a derived implementation does: every variant is emitted under its tag.
OperandConstantValue_serialize_derived(cv, out) ==
  IF cv.tag = "Literal"
  THEN Literal_serialize(cv.lit, Append(out, <<"Literal">>))
  ELSE Ok(Append(out, <<cv.tag>>))

OperandConstantValue_serialize(cv, out) ==
  IF cv.tag = "Literal"
  THEN Literal_serialize(cv.lit, out)
  ELSE Failed("unreachable", out)

LiteralSamples ==
  {Scalar("U32", SmallInt("U32", 1)), Scalar("U32", SmallInt("U32", 2)),
   Scalar("I8", SmallInt("I8", -1)), Bool(TRUE), Bool(FALSE),
   Char(SmallBytes(97, 4))}

FieldSeqs(S) == UNION {[1..n -> S] : n \in 0..MaxFields}

OperandConstantValues ==
  {Literal(l) : l \in LiteralSamples}
    \cup {Adt(x[1], x[2]) :
            x \in {None, Some(0)} \X FieldSeqs({Literal(l) : l \in LiteralSamples})}
    \cup {ConstantId(i) : i \in 0..1}
    \cup {StaticId(i) : i \in 0..1}
    \cup {OperandConstantValue_Var(i) : i \in 0..1}

Call_of(op, arg) == [op |-> op, arg |-> arg]

SerializeCalls == {Call_of("serialize", cv) : cv \in OperandConstantValues}

\* cv.serialize(serializer) on a serializer that has emitted nothing yet.
Serialize ==
  /\ call.op = "serialize"
  /\ result = None
  /\ result' = Some(OperandConstantValue_serialize(call.arg, <<>>))
  /\ UNCHANGED <<call, driver_vars, pass_vars, body_vars>>

(***************************************************************************)
(* Rendering of places, operands and aggregates (expressions_utils.rs).    *)
(***************************************************************************)
OPTION_NONE_VARIANT_ID == 0

OPTION_SOME_VARIANT_ID == 1

\* The rendering of an identifier by the formatting context.
format_object(id) == ToString(id)

RECURSIVE join(_, _)
join(strs, sep) ==
  IF strs = <<>> THEN ""
  ELSE IF Len(strs) = 1 THEN strs[1]
  ELSE strs[1] \o sep \o join(Tail(strs), sep)

RECURSIVE Place_fmt_projection(_, _)
Place_fmt_projection(out, projection) ==
  IF projection = <<>> THEN out
  ELSE LET pe == Head(projection)
           next == CASE pe.kind = "Deref" -> "*(" \o out \o ")"
                     [] pe.kind = "Field" -> "(" \o out \o ")." \o ToString(pe.var)
                     [] pe.kind = "Index" ->
                          "(" \o out \o ")[" \o format_object(pe.var) \o "]"
       IN Place_fmt_projection(next, Tail(projection))

Place_fmt_with_ctx(p) ==
  Place_fmt_projection(format_object(p.var_id), p.projection)

Literal_to_string(lit) == ToString(lit.value) \o " : " \o lit.ty

RECURSIVE OperandConstantValue_fmt_with_ctx(_)
OperandConstantValue_fmt_with_ctx(cv) ==
  CASE cv.tag = "Literal" -> Literal_to_string(cv.lit)
    [] cv.tag = "Adt" ->
         "ConstAdt "
           \o (IF cv.variant_id = None THEN "None"
               ELSE "Some(" \o ToString(cv.variant_id[1]) \o ")")
           \o " ["
           \o join([i \in DOMAIN cv.fields |->
                      OperandConstantValue_fmt_with_ctx(cv.fields[i])], ", ")
           \o "]"
    [] cv.tag = "ConstantId" -> format_object(cv.id)
    [] cv.tag = "StaticId" -> "alloc: &" \o format_object(cv.id)
    [] cv.tag = "Var" -> "const " \o format_object(cv.id)

Operand_fmt_with_ctx(o) ==
  CASE o.kind = "Copy" -> "copy (" \o Place_fmt_with_ctx(o.place) \o ")"
    [] o.kind = "Move" -> "move (" \o Place_fmt_with_ctx(o.place) \o ")"
    [] o.kind = "Const" ->
         "const (" \o OperandConstantValue_fmt_with_ctx(o.cv) \o ")"

AggregateKind(tag, variant_id) == [tag |-> tag, variant_id |-> variant_id]

AggregateKinds ==
  {AggregateKind("Tuple", 0), AggregateKind("Array", 0), AggregateKind("Range", 0),
   AggregateKind("Adt", None), AggregateKind("Adt", Some(0))}
    \cup {AggregateKind("Option", v) :
            v \in {OPTION_NONE_VARIANT_ID, OPTION_SOME_VARIANT_ID,
                   OPTION_SOME_VARIANT_ID + 1}}

\* The rendering of an ADT (None) or of one of its variants (Some).
format_variant(variant_id) ==
  IF variant_id = None THEN "Adt"
  ELSE "Adt::" \o format_object(variant_id[1])

\* The Option arm without its checks on the number of operands.
Aggregate_fmt_with_ctx_unchecked(kind, ops) ==
  LET ops_s == [i \in DOMAIN ops |-> Operand_fmt_with_ctx(ops[i])]
  IN CASE kind.tag = "Tuple" -> Ok("(" \o join(ops_s, ", ") \o ")")
       [] kind.tag = "Option" ->
            IF kind.variant_id = OPTION_NONE_VARIANT_ID \/ ops = <<>>
            THEN Ok("@Option::None")
            ELSE Ok("@Option::Some(" \o Operand_fmt_with_ctx(ops[1]) \o ")")
       [] kind.tag = "Adt" ->
            Ok(format_variant(kind.variant_id) \o " { "
                 \o join([i \in DOMAIN ops |->
                            format_object(i - 1) \o ": " \o ops_s[i]], ", ")
                 \o " }")
       [] kind.tag = "Array" -> Ok("[" \o join(ops_s, ", ") \o "]")
       [] kind.tag = "Range" -> Ok("@Range[" \o join(ops_s, ", ") \o "]")

\* The Rvalue::Aggregate arm of Rvalue::fmt_with_ctx.
Aggregate_fmt_with_ctx(kind, ops) ==
  LET ops_s == [i \in DOMAIN ops |-> Operand_fmt_with_ctx(ops[i])]
  IN CASE kind.tag = "Tuple" -> Ok("(" \o join(ops_s, ", ") \o ")")
       [] kind.tag = "Option" ->
            IF kind.variant_id = OPTION_NONE_VARIANT_ID
            THEN IF ops = <<>>
                 THEN Ok("@Option::None")
                 ELSE Failed("assert", "")
            ELSE IF kind.variant_id = OPTION_SOME_VARIANT_ID
            THEN IF Len(ops) = 1
                 THEN Ok("@Option::Some(" \o Operand_fmt_with_ctx(ops[1]) \o ")")
                 ELSE Failed("assert", "")
            ELSE Failed("unreachable", "")
       [] kind.tag = "Adt" ->
            Ok(format_variant(kind.variant_id) \o " { "
                 \o join([i \in DOMAIN ops |->
                            format_object(i - 1) \o ": " \o ops_s[i]], ", ")
                 \o " }")
       [] kind.tag = "Array" -> Ok("[" \o join(ops_s, ", ") \o "]")
       [] kind.tag = "Range" -> Ok("@Range[" \o join(ops_s, ", ") \o "]")

AggregateOperands ==
  {Copy(Place(0, <<>>)), Move(Place(1, <<Deref, Index(0)>>)),
   ConstOf(Literal(Scalar("U32", SmallInt("U32", 1)))), ConstOf(Adt(None, <<>>))}

FmtAggregateCalls ==
  {Call_of("fmt_aggregate", [kind |-> x[1], ops |-> x[2]]) :
     x \in AggregateKinds \X FieldSeqs(AggregateOperands)}

FmtAggregate ==
  /\ call.op = "fmt_aggregate"
  /\ result = None
  /\ result' = Some(Aggregate_fmt_with_ctx(call.arg.kind, call.arg.ops))
  /\ UNCHANGED <<call, driver_vars, pass_vars, body_vars>>

(***************************************************************************)
(* Constant translation, one call at a time.                               *)
(***************************************************************************)
LiteralTys == {"Bool", "Char"} \cup IntegerTys

\* The host's type of a literal type.
MirTyOf(lit) ==
  CASE lit = "Bool" -> TyKind_Bool
    [] lit = "Char" -> TyKind_Char
    [] lit \in SignedIntegerTys -> TyKind_Int(lit)
    [] lit \in UnsignedIntegerTys -> TyKind_Uint(lit)

\* The bit patterns of n bytes that are tried: zero, one, a small and a mixed
\* value, all ones, the top bit alone and all but the top bit; every pattern
\* of one byte.
ScalarSamples(n) ==
  IF n = 1 THEN {<<x>> : x \in Bytes}
  ELSE {Zeros(n), SmallBytes(1, n), SmallBytes(200, n),
        [i \in 1..n |-> i],
        [i \in 1..n |-> 255],
        min_magnitude(n),
        [i \in 1..n |-> IF i = n THEN 127 ELSE 255]}

\* 'a', the first and the last scalar value, and the two next to the
\* surrogates.
CharSamples ==
  {SmallBytes(97, 4), Zeros(4), <<255, 215, 0, 0>>, <<0, 224, 0, 0>>,
   <<255, 255, 16, 0>>}

\* The scalars the host gives for a literal type: of the size of the type,
\* and a valid boolean or character.
HostScalars(lit) ==
  CASE lit = "Bool" -> {Scalar_Int(1, <<0>>), Scalar_Int(1, <<1>>)}
    [] lit = "Char" -> {Scalar_Int(4, d) : d \in CharSamples}
    [] OTHER -> {Scalar_Int(IntegerTy_size(lit), d) :
                   d \in ScalarSamples(IntegerTy_size(lit))}

TypedScalars == UNION {{<<lit, sc>> : sc \in HostScalars(lit)} : lit \in LiteralTys}

\* The context of a body under translation whose constant generic 0 is bound.
BodyTransCtx_new(t_ctx) == t_ctx @@ [const_generic_vars_map |-> (0 :> 0)]

BodyCtxs == {BodyTransCtx_new(TransCtx_new(CrateInfo({}), level)) : level \in MirLevels}

BuiltCtx == BodyTransCtx_new(TransCtx_new(CrateInfo({}), "Built"))

\* Evaluated constants that are not scalars of a literal type.
OtherEvaluated ==
  {<<TyKind_Ref(TyKind_Str, TRUE), ConstValue_Slice>>,
   <<TyKind_Tuple(<<>>), ConstValue_ZeroSized>>,
   <<TyKind_Uint("U32"), ConstValue_ZeroSized>>,
   <<TyKind_Float, ConstValue_Scalar(Scalar_Int(4, Zeros(4)))>>,
   <<TyKind_Tuple(<<>>), ConstValue_Scalar(Scalar_Int(0, <<>>))>>,
   <<TyKind_Tuple(<<TyKind_Uint("U32"), TyKind_Uint("U32")>>),
     ConstValue_ByRef(None,
       <<ConstantKind_Val(ConstValue_Scalar(Scalar_Int(4, SmallBytes(1, 4))),
                          TyKind_Uint("U32")),
         ConstantKind_Val(ConstValue_Scalar(Scalar_Int(4, SmallBytes(2, 4))),
                          TyKind_Uint("U32"))>>)>>,
   <<TyKind_Ref(TyKind_Uint("U32"), TRUE),
     ConstValue_Scalar(Scalar_Ptr(GlobalAlloc_Static(1)))>>,
   <<TyKind_Ref(TyKind_Uint("U32"), TRUE),
     ConstValue_Scalar(Scalar_Ptr(GlobalAlloc_Memory))>>}

TranslateEvaluatedCalls ==
  {Call_of("translate_evaluated_operand_constant",
           [c |-> BuiltCtx, mir_ty |-> MirTyOf(x[1]),
            val |-> ConstValue_Scalar(x[2])]) : x \in TypedScalars}
    \cup {Call_of("translate_evaluated_operand_constant",
                  [c |-> BuiltCtx, mir_ty |-> x[1], val |-> x[2]]) :
            x \in OtherEvaluated}

\* Type-level constants that are not leaves of a literal type.
OtherConsts ==
  {ConstKind_Other(k, TyKind_Uint("U32")) :
     k \in {"Infer", "Bound", "Placeholder", "Error"}}
    \cup {ConstKind_Branch(TyKind_Tuple(<<>>)), ConstKind_Expr(TyKind_Uint("U32")),
          ConstKind_Unevaluated(TyKind_Uint("U32"), 1),
          ConstKind_Param(TyKind_Uint("U32"), 0),
          ConstKind_Param(TyKind_Uint("U32"), 1),
          ConstKind_Leaf(TyKind_Tuple(<<>>), Scalar_Int(0, <<>>))}

TranslateConstKindCalls ==
  {Call_of("translate_const_kind",
           [c |-> BuiltCtx, constant |-> ConstKind_Leaf(MirTyOf(x[1]), x[2])]) :
     x \in TypedScalars}
    \cup {Call_of("translate_const_kind", [c |-> x[1], constant |-> x[2]]) :
            x \in BodyCtxs \X OtherConsts}

ScalarTyKinds ==
  {TyKind_Bool, TyKind_Char, TyKind_Int("I32"), TyKind_Uint("U8"), TyKind_Float,
   TyKind_Str, TyKind_Tuple(<<>>), TyKind_Tuple(<<TyKind_Bool>>),
   TyKind_Adt(1, <<>>), TyKind_Adt(1, <<TyKind_Bool>>),
   TyKind_Ref(TyKind_Uint("U8"), TRUE), TyKind_Ref(TyKind_Uint("U8"), FALSE),
   TyKind_Ref(TyKind_Float, TRUE)}

TranslateScalarTypeCalls ==
  {Call_of("translate_constant_scalar_type", [c |-> BuiltCtx, ty |-> ty]) :
     ty \in ScalarTyKinds}

TranslateEvaluated ==
  /\ call.op = "translate_evaluated_operand_constant"
  /\ result = None
  /\ result' = Some(translate_evaluated_operand_constant(
                      call.arg.c, call.arg.mir_ty, call.arg.val))
  /\ UNCHANGED <<call, driver_vars, pass_vars, body_vars>>

TranslateConstKind ==
  /\ call.op = "translate_const_kind"
  /\ result = None
  /\ result' = Some(translate_const_kind(call.arg.c, call.arg.constant))
  /\ UNCHANGED <<call, driver_vars, pass_vars, body_vars>>

TranslateScalarType ==
  /\ call.op = "translate_constant_scalar_type"
  /\ result = None
  /\ result' = Some(translate_constant_scalar_type(call.arg.c, call.arg.ty))
  /\ UNCHANGED <<call, driver_vars, pass_vars, body_vars>>

\* The types of a scalar that is not a literal: every type declaration with
\* no type argument, an enumeration with a type argument, a declaration that
\* is not translated, and the tuples with no field and with one field.
ScalarAdtTys ==
  {Ty_Adt(id, <<>>) : id \in DOMAIN type_defs}
    \cup {Ty_Adt(0, <<Ty_Literal("Bool")>>), Ty_Adt(7, <<>>),
          Ty_Tuple(<<>>), Ty_Tuple(<<Ty_Literal("Bool")>>)}

TranslateScalarValueCalls ==
  {Call_of("translate_constant_scalar_value",
           [c |-> BuiltCtx, llbc_ty |-> x[1], scalar |-> x[2]]) :
     x \in ScalarAdtTys \X {Scalar_Int(0, <<>>), Scalar_Int(4, SmallBytes(5, 4))}}

TranslateScalarValue ==
  /\ call.op = "translate_constant_scalar_value"
  /\ result = None
  /\ result' = Some(translate_constant_scalar_value(
                      call.arg.c, call.arg.llbc_ty, call.arg.scalar))
  /\ UNCHANGED <<call, driver_vars, pass_vars, body_vars>>

\* The fields a by-reference constant is destructured into: the u32 values 1
\* and 2 and the boolean true.
DestructuredFields ==
  {ConstantKind_Val(ConstValue_Scalar(Scalar_Int(4, SmallBytes(1, 4))),
                    TyKind_Uint("U32")),
   ConstantKind_Val(ConstValue_Scalar(Scalar_Int(4, SmallBytes(2, 4))),
                    TyKind_Uint("U32")),
   ConstantKind_Val(ConstValue_Scalar(Scalar_Int(1, <<1>>)), TyKind_Bool)}

\* The types a by-reference constant is translated at: the tuples of u32 and
\* bool, and a type that is not a tuple.
ReferenceTys ==
  {Ty_Tuple(tys) : tys \in FieldSeqs({Ty_Literal("U32"), Ty_Literal("Bool")})}
    \cup {Ty_Literal("U32")}

TranslateReferenceValueCalls ==
  {Call_of("translate_constant_reference_value",
           [c |-> BuiltCtx, llbc_ty |-> x[1],
            value |-> ConstValue_ByRef(x[2], x[3])]) :
     x \in ReferenceTys \X {None, Some(0)} \X FieldSeqs(DestructuredFields)}

TranslateReferenceValue ==
  /\ call.op = "translate_constant_reference_value"
  /\ result = None
  /\ result' = Some(translate_constant_reference_value(
                      call.arg.c, call.arg.llbc_ty, call.arg.value))
  /\ UNCHANGED <<call, driver_vars, pass_vars, body_vars>>

\* The contexts of a body at each level, with no global registered yet and
\* with the global of the constant item 2 registered.
UnevaluatedCtxs ==
  BodyCtxs \cup {register_global_decl_id(bc, 2).ctx : bc \in BodyCtxs}

\* The MIR constants that are not evaluated yet, at the MIR level and at the
\* type level, and a constant that is evaluated.
UnevaluatedConstants ==
  {ConstantKind_Unevaluated(d, type_of(d)) : d \in {1, 2}}
    \cup {ConstantKind_Ty(ConstKind_Unevaluated(type_of(d), d)) : d \in {1, 2}}
    \cup {ConstantKind_Val(ConstValue_Scalar(Scalar_Int(4, SmallBytes(7, 4))),
                           TyKind_Uint("U32"))}

TranslateConstantKindCalls ==
  {Call_of("translate_constant_kind", [c |-> x[1], constant |-> x[2]]) :
     x \in UnevaluatedCtxs \X UnevaluatedConstants}

TranslateConstantKind ==
  /\ call.op = "translate_constant_kind"
  /\ result = None
  /\ result' = Some(translate_constant_kind(call.arg.c, call.arg.constant))
  /\ UNCHANGED <<call, driver_vars, pass_vars, body_vars>>

\* The types a zero-sized constant is translated at: the literal types, the
\* ADTs, the tuples, a reference and str.
ZeroSizedTys ==
  {Ty_Literal(lit) : lit \in LiteralTys}
    \cup ScalarAdtTys \cup ReferenceTys
    \cup {Ty_Ref(Ty_Tuple(<<>>)), Ty_Tuple(<<Ty_Tuple(<<>>)>>), Ty_Str}

TranslateConstValueCalls ==
  {Call_of("translate_const_value",
           [c |-> bc, llbc_ty |-> ty, val |-> ConstValue_ZeroSized]) :
     bc \in BodyCtxs, ty \in ZeroSizedTys}
    \cup {Call_of("translate_const_value",
                  [c |-> BuiltCtx, llbc_ty |-> Ty_Tuple(<<>>), val |-> v]) :
            v \in {ConstValue_Slice, ConstValue_ByRef(None, <<>>),
                   ConstValue_Scalar(Scalar_Int(0, <<>>))}}

TranslateConstValue ==
  /\ call.op = "translate_const_value"
  /\ result = None
  /\ result' = Some(translate_const_value(call.arg.c, call.arg.llbc_ty, call.arg.val))
  /\ UNCHANGED <<call, driver_vars, pass_vars, body_vars>>

(***************************************************************************)
(* The map with custom index types (id_map.rs): a map object, made empty   *)
(* and then filled by insertions.  The BTreeMap is the sequence of its     *)
(* bindings <<key, value>> as its iterator gives them.                     *)
(***************************************************************************)
NumMapIds == 3

MaxInserts == 4

MapIds == 0..(NumMapIds - 1)

MapValues == {"a", "b"}

BTreeMap_new == <<>>

\* The position of the first binding whose key is not below id, or one past
\* the end.
BTreeMap_search(m, id) ==
  IF \E i \in DOMAIN m : m[i][1] >= id
  THEN CHOOSE i \in DOMAIN m : m[i][1] >= id /\ \A j \in 1..(i - 1) : m[j][1] < id
  ELSE Len(m) + 1

\* The binding is pushed at the end, whatever its key.
BTreeMap_insert_at_end(m, id, x) == Append(m, <<id, x>>)

BTreeMap_insert(m, id, x) ==
  LET i == BTreeMap_search(m, id)
  IN IF i <= Len(m) /\ m[i][1] = id
     THEN [m EXCEPT ![i] = <<id, x>>]
     ELSE SubSeq(m, 1, i - 1) \o <<<<id, x>>>> \o SubSeq(m, i, Len(m))

BTreeMap_get(m, id) ==
  LET i == BTreeMap_search(m, id)
  IN IF i <= Len(m) /\ m[i][1] = id THEN Some(m[i][2]) ELSE None

BTreeMap_iter(m) == m

Map_new == [map |-> BTreeMap_new]

Map_insert(self, id, x) == [self EXCEPT !.map = BTreeMap_insert(self.map, id, x)]

Map_get(self, id) == BTreeMap_get(self.map, id)

Map_iter(self) ==
  LET it == BTreeMap_iter(self.map) IN [i \in DOMAIN it |-> it[i][2]]

Map_iter_indexed(self) == BTreeMap_iter(self.map)

Map_len(self) == Len(self.map)

Map_into_iter(self) == BTreeMap_iter(self.map)

\* serialize_seq with the length, one element per binding of the iteration,
\* then the end of the sequence.
Map_serialize(self, out) ==
  Ok(out \o <<<<"seq", Map_len(self)>>>>
         \o [i \in DOMAIN Map_into_iter(self) |-> <<"element", Map_into_iter(self)[i]>>]
         \o <<<<"end", 0>>>>)

MapCalls == {Call_of("id_map", <<>>)}

\* Map::new()
MapNew ==
  /\ call.op = "id_map"
  /\ result = None
  /\ result' = Some(Map_new)
  /\ UNCHANGED <<call, driver_vars, pass_vars, body_vars>>

\* map.insert(id, x); the argument of the call keeps the insertions made.
MapInsert ==
  /\ call.op = "id_map"
  /\ result # None
  /\ Len(call.arg) < MaxInserts
  /\ \E id \in MapIds, x \in MapValues :
       /\ result' = Some(Map_insert(result[1], id, x))
       /\ call' = [call EXCEPT !.arg = Append(@, <<id, x>>)]
  /\ UNCHANGED <<driver_vars, pass_vars, body_vars>>

(***************************************************************************)
(* The expression visitors with their default methods, run on one node.    *)
(***************************************************************************)
VisitPlaces ==
  {Place(v, pr) :
     v \in {0, 1},
     pr \in {<<>>, <<Deref>>, <<Field, Index(1)>>, <<Index(0), Deref>>,
             <<Index(1), Index(0)>>}}

VisitOperands == {Copy(p) : p \in VisitPlaces} \cup {Move(p) : p \in VisitPlaces} \cup {Const}

VisitArgs ==
  {Copy(Place(0, <<>>)), Move(Place(1, <<Index(0), Deref>>)), Const,
   Copy(Place(1, <<Field, Index(1)>>))}

VisitRvalues ==
  {Use(o) : o \in VisitOperands}
    \cup {UnaryOp(o) : o \in VisitOperands}
    \cup {BinaryOp(x[1], x[2]) : x \in VisitOperands \X VisitOperands}
    \cup {Ref(pl) : pl \in VisitPlaces}
    \cup {Discriminant(pl) : pl \in VisitPlaces}
    \cup {LenOf(pl) : pl \in VisitPlaces}
    \cup {Aggregate(ops) : ops \in FieldSeqs(VisitArgs)}
    \cup {Global}

\* The calls with no argument, one argument and two arguments.
VisitCallNodes ==
  {Call(x[1], x[2]) : x \in (UNION {[1..n -> VisitArgs] : n \in 0..2}) \X VisitPlaces}

VisitCalls ==
  {Call_of("visit", [sort |-> "place", node |-> n]) : n \in VisitPlaces}
    \cup {Call_of("visit", [sort |-> "operand", node |-> n]) : n \in VisitOperands}
    \cup {Call_of("visit", [sort |-> "rvalue", node |-> n]) : n \in VisitRvalues}
    \cup {Call_of("visit", [sort |-> "call", node |-> n]) : n \in VisitCallNodes}

SharedExprVisitor_visit(self, sort, node) ==
  CASE sort = "place" -> Shared_visit_place(self, node)
    [] sort = "operand" -> Shared_visit_operand(self, node)
    [] sort = "rvalue" -> Shared_visit_rvalue(self, node)
    [] sort = "call" -> Shared_visit_call(self, node)

MutExprVisitor_visit(self, sort, node) ==
  CASE sort = "place" -> Mut_visit_place(self, node)
    [] sort = "operand" -> Mut_visit_operand(self, node)
    [] sort = "rvalue" -> Mut_visit_rvalue(self, node)
    [] sort = "call" -> Mut_visit_call(self, node)

\* The node is visited by a shared and by a mutating visitor that override
\* no method.
Visit ==
  /\ call.op = "visit"
  /\ result = None
  /\ result' =
       Some([shared |-> SharedExprVisitor_visit(SharedExprVisitor_default,
                                                call.arg.sort, call.arg.node),
             mut |-> MutExprVisitor_visit(MutExprVisitor_default,
                                          call.arg.sort, call.arg.node)])
  /\ UNCHANGED <<call, driver_vars, pass_vars, body_vars>>

(***************************************************************************)
(* RemoveNops (remove_unused_locals.rs): the sequences that start with a   *)
(* no-op are replaced by their second statement.                           *)
(***************************************************************************)
\* Largest depth of the statement trees handed to remove_nops.
MaxDepth == 2

\* The meta-information of a statement: the span of its source positions.
Meta(beg, end) == <<beg, end>>

Max(x, y) == IF x >= y THEN x ELSE y

\* The span that covers both spans.
combine_meta(m1, m2) == Meta(Min(m1[1], m2[1]), Max(m1[2], m2[2]))

StatementAt(st, meta) == [st EXCEPT !.meta = meta]

is_nop(st) == st.kind = "Nop"

RECURSIVE RemoveNops_visit_statement(_)
\* The statements under a statement are visited; with the default methods
\* the expressions are visited and left as they are.
RemoveNops_default_visit_raw_statement(st) ==
  CASE st.kind = "Sequence" ->
         [st EXCEPT !.fields = <<RemoveNops_visit_statement(st.fields[1]),
                                 RemoveNops_visit_statement(st.fields[2])>>]
    [] st.kind = "Switch" ->
         [st EXCEPT !.fields =
            <<Mut_visit_operand(MutExprVisitor_default, st.fields[1]).node,
              RemoveNops_visit_statement(st.fields[2]),
              RemoveNops_visit_statement(st.fields[3])>>]
    [] OTHER -> st

RemoveNops_visit_statement(st) ==
  IF st.kind = "Sequence" /\ is_nop(st.fields[1])
  THEN StatementAt(st.fields[2],
                   combine_meta(st.fields[1].meta, st.fields[2].meta))
  ELSE RemoveNops_default_visit_raw_statement(st)

remove_nops(st) == RemoveNops_visit_statement(st)

RECURSIVE StatementTrees(_)
\* The statement trees of a depth at most d, over a no-op and a return: the
\* sequences of two such trees and the switches with such a tree as the
\* first branch.
StatementTrees(d) ==
  IF d = 0 THEN {Nop, Return}
  ELSE LET sub == StatementTrees(d - 1)
       IN {Nop, Return}
            \cup {Sequence(x[1], x[2]) : x \in sub \X sub}
            \cup {SwitchIf(Const, x, Return) : x \in sub}

RECURSIVE Located(_, _)
\* The tree with the statements at successive source positions from n on:
\* the statement and the position after it.
Located(st, n) ==
  IF st.kind \in {"Sequence", "Switch"}
  THEN LET k == Len(st.fields)
           second(r1, r2) ==
             [node |-> [st EXCEPT !.meta = Meta(n, r2.next - 1),
                                  !.fields[k - 1] = r1.node,
                                  !.fields[k] = r2.node],
              next |-> r2.next]
           first(r1) == second(r1, Located(st.fields[k], r1.next))
       IN first(Located(st.fields[k - 1], n + 1))
  ELSE [node |-> StatementAt(st, Meta(n, n)), next |-> n + 1]

RemoveNopsCalls ==
  {Call_of("remove_nops", Located(st, 0).node) : st \in StatementTrees(MaxDepth)}

RemoveNopsCall ==
  /\ call.op = "remove_nops"
  /\ result = None
  /\ result' = Some(remove_nops(call.arg))
  /\ UNCHANGED <<call, driver_vars, pass_vars, body_vars>>

(***************************************************************************)
(* The calls checked on their own.                                         *)
(***************************************************************************)
Calls ==
  SerializeCalls \cup FmtAggregateCalls \cup TranslateEvaluatedCalls
    \cup TranslateConstKindCalls \cup TranslateScalarTypeCalls \cup TranslateScalarValueCalls
    \cup TranslateReferenceValueCalls \cup TranslateConstantKindCalls
    \cup TranslateConstValueCalls \cup MapCalls
    \cup VisitCalls \cup RemoveNopsCalls

OpInit ==
  /\ DriverIdle
  /\ PassIdle
  /\ BodyIdle
  /\ call \in Calls
  /\ result = None

OpNext ==
  \/ Serialize
  \/ FmtAggregate
  \/ TranslateEvaluated
  \/ TranslateConstKind
  \/ TranslateScalarType
  \/ TranslateScalarValue
  \/ TranslateReferenceValue
  \/ TranslateConstantKind
  \/ TranslateConstValue
  \/ MapNew
  \/ MapInsert
  \/ Visit
  \/ RemoveNopsCall

OpSpec == OpInit /\ [][OpNext]_vars

(***************************************************************************)
(* The variables of a body context: push_var and push_const_generic_var.   *)
(***************************************************************************)
\* Largest number of calls made on a body context.
MaxPushes == 4

\* The host's indices of the variables pushed.
RustIndices == 0..1

Generator_new == 0

\* Generator::fresh_id: the identifier handed out and the counter after it.
Generator_fresh_id(counter) == [id |-> counter, counter |-> counter + 1]

Vector_new == <<>>

Vector_len(v) == Len(v)

\* Vector::insert at the position of the identifier, which is at most the
\* length of the vector.
Vector_insert(v, id, x) == SubSeq(v, 1, id) \o <<x>> \o SubSeq(v, id + 1, Len(v))

ConstGenericVar(index, name, ty) == [index |-> index, name |-> name, ty |-> ty]

\* The fields of BodyTransCtx::new for the variables and the constant
\* generics of the body.
BodyTransCtx_fresh ==
  [vars_counter |-> Generator_new,
   vars |-> Vector_new,
   vars_map |-> <<>>,
   const_generic_counter |-> Generator_new,
   const_generic_vars |-> Vector_new,
   const_generic_vars_map |-> <<>>]

\* A call that returned.
Unit == [tag |-> "Ok", msg |-> ""]

push_var(c, rid, ty, name) ==
  LET fresh == Generator_fresh_id(c.vars_counter)
      var_id == fresh.id
  IN IF var_id # Vector_len(c.vars)
     THEN Res([c EXCEPT !.vars_counter = fresh.counter], Panic("assert"))
     ELSE Res([c EXCEPT !.vars_counter = fresh.counter,
                        !.vars = Vector_insert(@, var_id, Var(var_id, name, ty)),
                        !.vars_map = (rid :> var_id) @@ @],
              Unit)

\* assert!(var_id.to_usize() == self.vars.len());
push_const_generic_var(c, rid, ty, name) ==
  LET fresh == Generator_fresh_id(c.const_generic_counter)
      var_id == fresh.id
  IN IF var_id # Vector_len(c.vars)
     THEN Res([c EXCEPT !.const_generic_counter = fresh.counter], Panic("assert"))
     ELSE Res([c EXCEPT !.const_generic_counter = fresh.counter,
                        !.const_generic_vars =
                          Vector_insert(@, var_id, ConstGenericVar(var_id, name, ty)),
                        !.const_generic_vars_map = (rid :> var_id) @@ @],
              Unit)

\* A call on the body context, as it is recorded.
Pushed(op, rid, ty, name) == [op |-> op, rid |-> rid, ty |-> ty, name |-> name]

BodyInit ==
  /\ DriverIdle
  /\ PassIdle
  /\ OpIdle
  /\ bctx = BodyTransCtx_fresh
  /\ bpc = "run"
  /\ pushed = <<>>

PushVar ==
  /\ bpc = "run"
  /\ Len(pushed) < MaxPushes
  /\ \E rid \in RustIndices :
       LET r == push_var(bctx, rid, <<"U32">>, Some(rid))
       IN /\ bctx' = r.ctx
          /\ bpc' = IF is_panic(r.ret) THEN "panic" ELSE "run"
          /\ pushed' = Append(pushed, Pushed("push_var", rid, <<"U32">>, Some(rid)))
  /\ UNCHANGED <<driver_vars, pass_vars, op_vars>>

PushConstGenericVar ==
  /\ bpc = "run"
  /\ Len(pushed) < MaxPushes
  /\ \E rid \in RustIndices, ty \in {"Bool", "U32"} :
       LET r == push_const_generic_var(bctx, rid, ty, rid)
       IN /\ bctx' = r.ctx
          /\ bpc' = IF is_panic(r.ret) THEN "panic" ELSE "run"
          /\ pushed' = Append(pushed, Pushed("push_const_generic_var", rid, ty, rid))
  /\ UNCHANGED <<driver_vars, pass_vars, op_vars>>

BodyNext == PushVar \/ PushConstGenericVar

BodySpec == BodyInit /\ [][BodyNext]_vars

\* The calls of push_const_generic_var made so far, in order.
ConstGenericPushes ==
  SelectSeq(pushed, LAMBDA e : e.op = "push_const_generic_var")

\* The last of the first k calls of push_const_generic_var on the host index.
LastPushOf(rid, k) ==
  CHOOSE i \in 1..k :
    /\ ConstGenericPushes[i].rid = rid
    /\ \A j \in (i + 1)..k : ConstGenericPushes[j].rid # rid

\* C28: on a fresh body context every sequence of push_const_generic_var
\* calls, interleaved in any way with push_var calls, succeeds: the k-th call
\* of push_const_generic_var assigns the identifier k-1, stores the variable
\* at that position, so that const_generic_vars stays dense, and records the
\* host index in const_generic_vars_map.
C28_ConstGenericPushesSucceed ==
  bpc \in {"run", "panic"} =>
    /\ bpc = "run"
    /\ Len(bctx.const_generic_vars) = Len(ConstGenericPushes)
    /\ \A k \in DOMAIN ConstGenericPushes :
         /\ bctx.const_generic_vars[k] =
              ConstGenericVar(k - 1, ConstGenericPushes[k].name, ConstGenericPushes[k].ty)
         /\ ConstGenericPushes[k].rid \in DOMAIN bctx.const_generic_vars_map
    /\ \A rid \in DOMAIN bctx.const_generic_vars_map :
         bctx.const_generic_vars_map[rid] =
           LastPushOf(rid, Len(ConstGenericPushes)) - 1

\* Two calls of push_const_generic_var with a call of push_var between them
\* have succeeded.
C28_Witness ==
  /\ bpc = "run"
  /\ Len(pushed) = 3
  /\ pushed[1].op = "push_const_generic_var"
  /\ pushed[2].op = "push_var"
  /\ pushed[3].op = "push_const_generic_var"
  /\ Len(bctx.const_generic_vars) = 2
  /\ bctx.const_generic_vars[2].index = 1

Returned_from(op) == call.op = op /\ result # None

\* C11: serializing an OperandConstantValue succeeds only for the Literal
\* variant, and then emits exactly the serialization of the underlying
\* literal; for Adt, ConstantId, StaticId and Var it is a fatal failure that
\* emits nothing.
C11_SerializeLiteralOnly ==
  Returned_from("serialize") =>
    IF call.arg.tag = "Literal"
    THEN /\ result[1].ret.tag = "Ok"
         /\ result[1] = Literal_serialize(call.arg.lit, <<>>)
         /\ result[1].out = <<<<call.arg.lit.tag, call.arg.lit.ty, call.arg.lit.value>>>>
    ELSE /\ result[1].ret = Panic("unreachable")
         /\ result[1].out = <<>>

\* The Adt of the tuple constant (1u32, 2u32) was handed to the serializer.
C11_Witness ==
  /\ Returned_from("serialize")
  /\ call.arg = Adt(None, <<Literal(Scalar("U32", SmallInt("U32", 1))),
                          Literal(Scalar("U32", SmallInt("U32", 2)))>>)
  /\ result[1].ret.tag = "Panic"

\* C12: for an Option aggregate the none tag is accepted only with zero
\* operands and the some tag only with exactly one; any other number of
\* operands for these tags, and any other tag, is a fatal failure.
C12_OptionAggregateArity ==
  (Returned_from("fmt_aggregate") /\ call.arg.kind.tag = "Option") =>
    LET v == call.arg.kind.variant_id
        n == Len(call.arg.ops)
        r == result[1]
    IN /\ r.ret.tag = "Ok" <=>
            \/ v = OPTION_NONE_VARIANT_ID /\ n = 0
            \/ v = OPTION_SOME_VARIANT_ID /\ n = 1
       /\ r.ret.tag # "Ok" =>
            /\ r.ret.tag = "Panic"
            /\ r.out = ""
            /\ r.ret.msg =
                 (IF v \in {OPTION_NONE_VARIANT_ID, OPTION_SOME_VARIANT_ID}
                  THEN "assert" ELSE "unreachable")
       /\ (r.ret.tag = "Ok" /\ n = 0) => r.out = "@Option::None"
       /\ (r.ret.tag = "Ok" /\ n = 1) =>
            r.out = "@Option::Some(" \o Operand_fmt_with_ctx(call.arg.ops[1]) \o ")"

\* A some-tagged aggregate with two operands was rendered and failed.
C12_Witness ==
  /\ Returned_from("fmt_aggregate")
  /\ call.arg.kind = AggregateKind("Option", OPTION_SOME_VARIANT_ID)
  /\ Len(call.arg.ops) = 2
  /\ result[1].ret = Panic("assert")

\* The literal type of a host type of booleans, characters or integers.
LitOf(mir_ty) == IF mir_ty.kind \in {"Int", "Uint"} THEN mir_ty.ity ELSE mir_ty.kind

IsLiteralTyKind(mir_ty) == mir_ty.kind \in {"Bool", "Char", "Int", "Uint"}

\* The literal v is of the variant of the literal type lit and denotes the
\* value that the bits data denote at that type.
SameValue(lit, v, data) ==
  CASE lit = "Bool" -> v.tag = "Bool" /\ (v.value <=> data = <<1>>)
    [] lit = "Char" -> v.tag = "Char" /\ v.value = data
    [] OTHER ->
         /\ v.tag = "Scalar"
         /\ v.ty = lit
         /\ Len(v.value.mag) = IntegerTy_size(lit)
         /\ IF v.value.neg
            THEN /\ is_signed(lit)
                 /\ top_bit(data)
                 /\ twos_complement(v.value.mag) = data
            ELSE /\ v.value.mag = data
                 /\ is_signed(lit) => ~top_bit(data)

\* The call returned the pair of the translated type and the literal of the
\* host scalar.
YieldsLiteralOf(mir_ty, scalar) ==
  /\ result[1].ret.tag = "Literal"
  /\ result[1].ety = Ty_Literal(LitOf(mir_ty))
  /\ SameValue(LitOf(mir_ty), result[1].ret.lit, scalar.data)

EvaluatedScalarCall ==
  /\ Returned_from("translate_evaluated_operand_constant")
  /\ IsLiteralTyKind(call.arg.mir_ty)
  /\ call.arg.val.kind = "Scalar"

LeafCall ==
  /\ Returned_from("translate_const_kind")
  /\ call.arg.constant.kind = "Leaf"
  /\ IsLiteralTyKind(call.arg.constant.mir_ty)

\* C13 as stated: for each supported literal type, translating a host scalar
\* of that type yields a Literal of the matching variant and of the same
\* value, both for an evaluated MIR scalar and for a leaf of a type-level
\* value tree.
C13_ScalarRoundTripEveryPath ==
  /\ EvaluatedScalarCall =>
       YieldsLiteralOf(call.arg.mir_ty, call.arg.val.scalar)
  /\ LeafCall => YieldsLiteralOf(call.arg.constant.mir_ty, call.arg.constant.leaf)

\* C13: for each supported literal type, translating an evaluated MIR scalar
\* of that type yields a Literal of the matching variant and of the same
\* value; so does translating a leaf of a type-level value tree whose type is
\* bool or an integer type, while a leaf of type char is rejected as not
\* implemented and yields no value.
C13_ScalarRoundTrip ==
  /\ EvaluatedScalarCall =>
       YieldsLiteralOf(call.arg.mir_ty, call.arg.val.scalar)
  /\ LeafCall =>
       IF call.arg.constant.mir_ty.kind = "Char"
       THEN result[1].ret = Panic("not implemented")
       ELSE YieldsLiteralOf(call.arg.constant.mir_ty, call.arg.constant.leaf)

\* The evaluated i16 scalar 0x8000 was translated to the literal -32768.
C13_Witness ==
  /\ EvaluatedScalarCall
  /\ call.arg.mir_ty = TyKind_Int("I16")
  /\ call.arg.val.scalar.data = <<0, 128>>
  /\ result[1].ret = Literal(Scalar("I16", IntValue(TRUE, <<0, 128>>)))

FloatTypeCall ==
  /\ Returned_from("translate_constant_scalar_type")
  /\ call.arg.ty.kind = "Float"

UnresolvedConstCall ==
  /\ Returned_from("translate_const_kind")
  /\ call.arg.constant.kind \in {"Infer", "Bound", "Placeholder", "Error"}

SliceCall ==
  /\ Returned_from("translate_evaluated_operand_constant")
  /\ call.arg.val.kind = "Slice"

\* C14: floating-point constants, the constant kinds Infer, Bound, Placeholder
\* and Error, and slice constants are each rejected with a "not implemented"
\* failure, which is not the failure of an internal invariant, and none of
\* them yields a constant value.
C14_RejectedAsNotImplemented ==
  (FloatTypeCall \/ UnresolvedConstCall \/ SliceCall) =>
    result[1].ret = Panic("not implemented")

\* A constant of kind Infer was rejected as unreachable code.
C14_Witness ==
  /\ UnresolvedConstCall
  /\ call.arg.constant.kind = "Infer"
  /\ result[1].ret = Panic("unreachable")

\* The keys of a set in strictly ascending order.
AscendingSeq(S) ==
  CHOOSE q \in [1..Cardinality(S) -> S] :
    \A i, j \in 1..Cardinality(S) : i < j => q[i] < q[j]

InsertedKeys == {call.arg[i][1] : i \in DOMAIN call.arg}

\* The value of the last insertion at a key.
LastInserted(id) ==
  LET last == CHOOSE i \in DOMAIN call.arg :
                /\ call.arg[i][1] = id
                /\ \A j \in DOMAIN call.arg : call.arg[j][1] = id => j <= i
  IN call.arg[last][2]

MapBuilt == call.op = "id_map" /\ result # None

\* C15: after any sequence of insertions, iter, iter_indexed, into_iter and
\* the serialization give the bindings in strictly ascending key order,
\* exactly one per distinct key inserted, whatever the order of the
\* insertions; get on a key never inserted gives None.
C15_AscendingKeyOrder ==
  MapBuilt =>
    LET m == result[1]
        keys == AscendingSeq(InsertedKeys)
        bindings == [i \in DOMAIN keys |-> <<keys[i], LastInserted(keys[i])>>]
    IN /\ Map_iter_indexed(m) = bindings
       /\ Map_into_iter(m) = bindings
       /\ Map_iter(m) = [i \in DOMAIN keys |-> bindings[i][2]]
       /\ Map_serialize(m, <<>>).out =
            <<<<"seq", Len(keys)>>>>
              \o [i \in DOMAIN keys |-> <<"element", bindings[i]>>]
              \o <<<<"end", 0>>>>
       /\ \A id \in MapIds \ InsertedKeys : Map_get(m, id) = None
       /\ \A id \in InsertedKeys : Map_get(m, id) = Some(LastInserted(id))

\* The keys 2, 0, 2, 1 were inserted in this order and one key never was.
C15_Witness ==
  /\ MapBuilt
  /\ [i \in DOMAIN call.arg |-> call.arg[i][1]] = <<2, 0, 2, 1>>
  /\ Len(result[1].map) = 3

\* C26: the map from the old to the new identifiers built by update_locals is
\* strictly order-preserving and injective on the retained locals, maps every
\* identifier to one that is not larger, and is the identity on the return
\* slot and the arguments (0..arg_count) of a body with dense locals.
C26_SubstitutionMonotone ==
  LocalsUpdated =>
    /\ \A x, y \in DOMAIN vids_map : x < y => vids_map[x] < vids_map[y]
    /\ \A x, y \in DOMAIN vids_map : vids_map[x] = vids_map[y] => x = y
    /\ \A x \in DOMAIN vids_map : vids_map[x] <= x
    /\ \A i \in 0..old_b.arg_count : i \in DOMAIN vids_map /\ vids_map[i] = i

\* The local after the return slot was dropped and the one after it moved
\* down, while the return slot kept its identifier.
C26_Witness ==
  /\ ppc = "updated"
  /\ old_b.arg_count = 0
  /\ \E x \in DOMAIN vids_map : x > 0 /\ vids_map[x] = x - 1
  /\ vids_map[0] = 0
  /\ Cardinality(DOMAIN vids_map) = Len(old_b.locals) - 1

\* The shape of a statement tree: the tree with every variable identifier
\* replaced by 0.
ShapeOfPlace(p) ==
  Place(0, [i \in DOMAIN p.projection |->
              IF p.projection[i].kind = "Index" THEN Index(0) ELSE p.projection[i]])

ShapeOfOperand(o) ==
  IF o.kind \in {"Copy", "Move"} THEN [o EXCEPT !.place = ShapeOfPlace(@)] ELSE o

ShapeOfOperands(ops) == [i \in DOMAIN ops |-> ShapeOfOperand(ops[i])]

ShapeOfRvalue(rv) ==
  [rv EXCEPT !.ops = ShapeOfOperands(@),
             !.places = [i \in DOMAIN @ |-> ShapeOfPlace(@[i])]]

RECURSIVE ShapeOf(_)
ShapeOf(st) ==
  CASE st.kind = "Assign" ->
         [st EXCEPT !.fields = <<ShapeOfPlace(@[1]), ShapeOfRvalue(@[2])>>]
    [] st.kind = "Call" ->
         [st EXCEPT !.fields = <<Call(ShapeOfOperands(@[1].args),
                                      ShapeOfPlace(@[1].dest))>>]
    [] st.kind = "Sequence" ->
         [st EXCEPT !.fields = <<ShapeOf(@[1]), ShapeOf(@[2])>>]
    [] st.kind = "Switch" ->
         [st EXCEPT !.fields = <<ShapeOfOperand(@[1]), ShapeOf(@[2]), ShapeOf(@[3])>>]
    [] OTHER -> st

\* C27: the pass only renames: after it the arg_count and the shape of the
\* statement tree of the body are unchanged, only variable identifiers differ,
\* and every variable reference denotes the local it denoted before: the new
\* local at the image of v has the name and the type of the old local v.
C27_OnlyRenames ==
  ppc \in {"rewritten", "done"} =>
    /\ b.arg_count = old_b.arg_count
    /\ ShapeOf(b.body) = ShapeOf(old_b.body)
    /\ LET old_occ == Occurrences(old_b.body)
           new_occ == Occurrences(b.body)
       IN /\ Len(new_occ) = Len(old_occ)
          /\ \A i \in DOMAIN old_occ :
               /\ new_occ[i] + 1 \in DOMAIN b.locals
               /\ b.locals[new_occ[i] + 1].name = old_b.locals[old_occ[i] + 1].name
               /\ b.locals[new_occ[i] + 1].ty = old_b.locals[old_occ[i] + 1].ty
               /\ b.locals[vids_map[old_occ[i]] + 1].name = old_b.locals[old_occ[i] + 1].name
               /\ b.locals[vids_map[old_occ[i]] + 1].ty = old_b.locals[old_occ[i] + 1].ty

\* A binary operation on two distinct locals was rewritten, the body differs
\* from the one before the pass and a local was dropped.
C27_Witness ==
  /\ ppc = "done"
  /\ old_b.body.kind = "Assign"
  /\ old_b.body.fields[2].kind = "BinaryOp"
  /\ old_b.body.fields[2].ops[1] # old_b.body.fields[2].ops[2]
  /\ b.body # old_b.body
  /\ Len(b.locals) < Len(old_b.locals)

\* The old locals the pass retains: those at 0..arg_count and those the body
\* references.
RetainedLocals ==
  {v \in VarIds :
     v \in 0..old_b.arg_count \/ CountOf(Occurrences(old_b.body), v) > 0}

\* C29: update_locals fails an assertion, and returns no new locals, whenever
\* a retained local (referenced in the body or at a position in 0..arg_count)
\* has a type that contains the never type anywhere inside it; contains_never
\* holds of every type of which is_never holds, and the assertion of transform
\* after the rewriting is never the one that fails.
C29_NeverAbortsUpdateLocals ==
  /\ [](/\ (ppc # "start"
             /\ \E v \in RetainedLocals : contains_never(old_b.locals[v + 1].ty))
            => (ppc = "panic" /\ b = old_b /\ vids_map = <<>>)
        /\ \A ty \in Tys : is_never(ty) => contains_never(ty))
  /\ [][ppc = "rewritten" => ppc' = "done"]_vars

\* The return slot has a type with never below a type constructor, no local
\* has the never type itself, and update_locals has failed.
C29_Witness ==
  /\ ppc = "panic"
  /\ vids_map = <<>>
  /\ b = old_b
  /\ contains_never(old_b.locals[1].ty)
  /\ \A i \in DOMAIN old_b.locals : ~is_never(old_b.locals[i].ty)

\* C30: the pass is idempotent: transform run a second time on a body the
\* pass has processed succeeds and leaves the locals vector and every
\* variable reference of the body unchanged, its map being the identity on
\* the identifiers of the locals.
C30_Idempotent ==
  rerun # None =>
    /\ ~rerun[1].failed
    /\ rerun[1].b.locals = b.locals
    /\ rerun[1].b.body = b.body
    /\ rerun[1].b = b
    /\ DOMAIN rerun[1].vids_map = 0..(Len(b.locals) - 1)
    /\ \A v \in DOMAIN rerun[1].vids_map : rerun[1].vids_map[v] = v

\* The first run dropped a local and renumbered a reference of the body, and
\* transform was run again on the result.
C30_Witness ==
  /\ rerun # None
  /\ Len(b.locals) < Len(old_b.locals)
  /\ b.body # old_b.body
  /\ Occurrences(b.body) # <<>>

OccursInBody(v) == \E i \in DOMAIN Occurrences(old_b.body) : Occurrences(old_b.body)[i] = v

\* C16: a local is retained by the pass if and only if its identifier is in
\* 0..arg_count or it occurs at least once in the body, where an occurrence
\* as the variable of an Index projection or in the arguments or the
\* destination of a call counts like any other; every other local is
\* dropped from the locals vector.
C16_RetainedIffSeededOrUsed ==
  LocalsUpdated =>
    \A v \in VarIds :
      IF v \in 0..old_b.arg_count \/ OccursInBody(v)
      THEN Cardinality(RetainedAt(v)) = 1 /\ v \in DOMAIN vids_map
      ELSE RetainedAt(v) = {} /\ v \notin DOMAIN vids_map

\* A local that occurs only as the Index variable of the destination of a
\* call was retained, and a local before it that never occurs was dropped.
C16_Witness ==
  /\ ppc = "done"
  /\ old_b.arg_count = 0
  /\ old_b.body = CallSt(Call(<<Copy(Place(0, <<>>))>>, Place(0, <<Deref, Index(2)>>)))
  /\ RetainedAt(2) = {2}
  /\ RetainedAt(1) = {}

\* The rewriting traversal has run, with or without a failure.
Rewriting ==
  \/ ppc \in {"rewritten", "done"}
  \/ ppc = "panic" /\ vids_map # <<>>

Counted(v) == IF v \in DOMAIN used_locals_cnt THEN used_locals_cnt[v] ELSE 0

\* C17: during the rewriting traversal the lookup of every variable
\* occurrence visited succeeds, for every body whose variable references all
\* name declared locals: the occurrences visited by the mutating traversal
\* are exactly those counted by the shared traversal, so the unwrap in
\* UpdateUsedLocals::visit_var_id never fails.
C17_LookupsSucceed ==
  Rewriting =>
    /\ ppc # "panic"
    /\ \A i \in DOMAIN lookups : lookups[i] \in DOMAIN vids_map
    /\ \A v \in VarIds : CountOf(lookups, v) = Counted(v)
    /\ lookups = Occurrences(old_b.body)

\* A switch on a place indexed by a local after the arguments was rewritten:
\* the local was looked up as the variable of the Index element.
C17_Witness ==
  /\ ppc = "done"
  /\ old_b.body.kind = "Switch"
  /\ old_b.arg_count = 0
  /\ old_b.body.fields[1].place = Place(2, <<Deref, Index(2)>>)
  /\ lookups[2] = 2
  /\ vids_map[2] = 1

\* The two records of calls name the same methods on the same nodes in the
\* same order.
SameCalls(l1, l2) ==
  /\ Len(l1) = Len(l2)
  /\ \A i \in DOMAIN l1 : l1[i].hook = l2[i].hook /\ l1[i].node = l2[i].node

CallsOf(log, hook) == {i \in DOMAIN log : log[i].hook = hook}

\* The nodes on which a method was called, in order.
NodesOf(log, hook) ==
  LET calls == SelectSeq(log, LAMBDA e : e.hook = hook)
  IN [i \in DOMAIN calls |-> calls[i].node]

\* C19: the default traversal visits, for a place, the base variable before
\* the projection elements and these in order; for a binary operation, the
\* left operand before the right one; for an aggregate, the operands in
\* order; for a call, the arguments in order and then the destination.
C19_TraversalOrder ==
  Returned_from("visit") =>
    LET log == result[1].shared.log
        node == call.arg.node
    IN /\ call.arg.sort = "place" =>
            /\ log[1].hook = "visit_place"
            /\ log[2].hook = "visit_var_id" /\ log[2].node = node.var_id
            /\ \A i \in CallsOf(log, "visit_projection_elem") : i > 2
            /\ NodesOf(log, "visit_projection_elem") = node.projection
       /\ (call.arg.sort = "rvalue" /\ node.kind = "BinaryOp") =>
            /\ NodesOf(log, "visit_operand") = <<node.ops[1], node.ops[2]>>
            /\ NodesOf(log, "visit_var_id") =
                 OperandOccurrences(node.ops[1]) \o OperandOccurrences(node.ops[2])
       /\ (call.arg.sort = "rvalue" /\ node.kind = "Aggregate") =>
            /\ NodesOf(log, "visit_operand") = node.ops
            /\ NodesOf(log, "visit_var_id") = OperandsOccurrences(node.ops)
       /\ call.arg.sort = "call" =>
            /\ NodesOf(log, "visit_operand") = node.args
            /\ \E i \in CallsOf(log, "visit_place") :
                 /\ log[i].node = node.dest
                 /\ \A j \in CallsOf(log, "visit_operand") : j < i
                 /\ \A j \in CallsOf(log, "visit_place") : j <= i
            /\ NodesOf(log, "visit_var_id") =
                 OperandsOccurrences(node.args) \o PlaceOccurrences(node.dest)

\* A binary operation on two different places was visited: the variables
\* of the left operand were met before those of the right one.
C19_Witness ==
  /\ Returned_from("visit")
  /\ call.arg.sort = "rvalue"
  /\ call.arg.node = BinaryOp(Copy(Place(0, <<Field, Index(1)>>)),
                              Move(Place(1, <<Index(0), Deref>>)))
  /\ NodesOf(result[1].shared.log, "visit_var_id") = <<0, 1, 1, 0>>

RECURSIVE HasNopSequence(_)
\* Some sequence of the tree starts with a no-op.
HasNopSequence(st) ==
  CASE st.kind = "Sequence" ->
         \/ is_nop(st.fields[1])
         \/ HasNopSequence(st.fields[1])
         \/ HasNopSequence(st.fields[2])
    [] st.kind = "Switch" ->
         HasNopSequence(st.fields[2]) \/ HasNopSequence(st.fields[3])
    [] OTHER -> FALSE

RECURSIVE Collapsed(_)
\* The tree with every sequence that starts with a no-op replaced by its
\* second statement, which carries the combination of both metas.
Collapsed(st) ==
  CASE st.kind = "Sequence" ->
         IF is_nop(st.fields[1])
         THEN LET second == Collapsed(st.fields[2])
              IN StatementAt(second, combine_meta(st.fields[1].meta, second.meta))
         ELSE [st EXCEPT !.fields = <<Collapsed(st.fields[1]), Collapsed(st.fields[2])>>]
    [] st.kind = "Switch" ->
         [st EXCEPT !.fields =
            <<st.fields[1], Collapsed(st.fields[2]), Collapsed(st.fields[3])>>]
    [] OTHER -> st

\* C20: after remove_nops(s) no sequence with a no-op first element remains
\* anywhere in s, chains of no-ops and sequences nested in the second
\* element included; each such sequence is replaced by its second element
\* with the combination of both metas, and the other statements keep their
\* content and their order.
C20_NoNopSequenceRemains ==
  Returned_from("remove_nops") =>
    /\ ~HasNopSequence(result[1])
    /\ result[1] = Collapsed(call.arg)

\* remove_nops was run on nop; (nop; return) and gave nop; return.
C20_Witness ==
  /\ Returned_from("remove_nops")
  /\ call.arg = Located(Sequence(Nop, Sequence(Nop, Return)), 0).node
  /\ result[1].kind = "Sequence"
  /\ is_nop(result[1].fields[1])
  /\ result[1].fields[2].kind = "Return"

\* The declaration of an ADT type with no type argument, if it is translated.
DeclOf(ty) ==
  IF ty.k = "Adt" /\ ty.fields = <<>> /\ ty.id \in DOMAIN type_defs
  THEN Some(type_defs[ty.id]) ELSE None

\* The declaration has fields: the only variant of the enumeration or the
\* body of the structure is not empty.
HasFields(def) == \E i \in DOMAIN def.variants : def.variants[i] > 0

ScalarValueCall == Returned_from("translate_constant_scalar_value")

\* C21: translate_constant_scalar_value on an ADT-typed scalar yields
\* Adt(Some(variant 0), []) for an enumeration with exactly one variant
\* without fields and Adt(None, []) for a structure without fields or the
\* unit tuple; an enumeration with more than one variant, and an ADT whose
\* only variant or whose structure body has fields, is rejected with a
\* failure of an internal invariant and gives no constant.
C21_DegenerateAdtScalar ==
  ScalarValueCall =>
    LET ty == call.arg.llbc_ty
        ret == result[1].ret
        decl == DeclOf(ty)
    IN /\ is_unit(ty) => ret = Adt(None, <<>>)
       /\ (decl # None /\ decl[1].type_params = 0) =>
            CASE decl[1].kind = "Enum" /\ Len(decl[1].variants) # 1 ->
                   ret \in {Panic("assert"), Panic("unreachable")}
              [] decl[1].kind \in {"Enum", "Struct"} /\ HasFields(decl[1]) ->
                   ret \in {Panic("assert"), Panic("unreachable")}
              [] decl[1].kind = "Enum" -> ret = Adt(Some(0), <<>>)
              [] decl[1].kind = "Struct" -> ret = Adt(None, <<>>)
              [] OTHER -> TRUE

\* The scalar of an enumeration with one variant without fields was
\* translated to the value of its variant 0.
C21_Witness ==
  /\ ScalarValueCall
  /\ call.arg.llbc_ty = Ty_Adt(0, <<>>)
  /\ type_defs[0] = TypeDecl("Enum", 0, <<0>>)
  /\ result[1].ret = Adt(Some(0), <<>>)

ReferenceValueCall == Returned_from("translate_constant_reference_value")

\* The literal type a destructured field is translated at.
FieldTy(f) ==
  CASE f.mir_ty.kind = "Bool" -> Ty_Literal("Bool")
    [] f.mir_ty.kind = "Char" -> Ty_Literal("Char")
    [] OTHER -> Ty_Literal(f.mir_ty.ity)

\* The fields match the field types of the tuple position by position and
\* in number.
FieldsMatch(fields, tys) ==
  /\ Len(fields) = Len(tys)
  /\ \A i \in DOMAIN fields : FieldTy(fields[i]) = tys[i]

\* C22: translate_constant_reference_value succeeds only when the
\* destructured constant has no variant and its translated fields match the
\* declared field types of the tuple exactly, position by position and in
\* number; any mismatch makes the translation fail. On success the result
\* is Adt(None, fields) with the values of the fields in destructuring order.
C22_FieldsMatchExactly ==
  ReferenceValueCall =>
    LET ty == call.arg.llbc_ty
        value == call.arg.value
        ret == result[1].ret
    IN IF /\ value.variant = None
          /\ ty.k = "Tuple"
          /\ FieldsMatch(value.fields, ty.fields)
       THEN /\ ret.tag = "Adt"
            /\ ret.variant_id = None
            /\ Len(ret.fields) = Len(value.fields)
            /\ \A i \in DOMAIN value.fields :
                 ret.fields[i] = translate_constant_kind(call.arg.c, value.fields[i]).ret
       ELSE is_panic(ret)

\* The constant (1u32, 2u32) was translated at the type (u32, u32): the
\* result has the two literals 1 and 2, in this order.
C22_Witness ==
  /\ ReferenceValueCall
  /\ call.arg.llbc_ty = Ty_Tuple(<<Ty_Literal("U32"), Ty_Literal("U32")>>)
  /\ result[1].ret.tag = "Adt"
  /\ result[1].ret =
       Adt(None, <<Literal(Scalar("U32", SmallInt("U32", 1))),
                   Literal(Scalar("U32", SmallInt("U32", 2)))>>)

\* The call translated a constant in inline mode.
InlineCall ==
  /\ result # None
  /\ call.op \in {"translate_constant_kind", "translate_const_kind"}
  /\ ~extract_constants_at_top_level(call.arg.c.mir_level)

\* The unevaluated constant handed over at the MIR level, if any.
MirUnevaluated ==
  IF call.op = "translate_constant_kind" /\ call.arg.constant.ck = "Unevaluated"
  THEN Some(call.arg.constant.def) ELSE None

\* The unevaluated constant handed over at the type level, if any.
TyUnevaluated ==
  IF call.op = "translate_constant_kind"
  THEN IF call.arg.constant.ck = "Ty"
       THEN IF call.arg.constant.const.kind = "Unevaluated"
            THEN Some(call.arg.constant.const.def) ELSE None
       ELSE None
  ELSE IF call.arg.constant.kind = "Unevaluated"
  THEN Some(call.arg.constant.def) ELSE None

\* The value of the constant item was translated in place: the literal of its
\* evaluation at its type, no ConstantId, and no global registered or
\* queued.
InlinedValueOf(def) ==
  /\ result[1].ret.tag = "Literal"
  /\ result[1].ret = Literal(Scalar("U32", SmallInt("U32", 10 * def)))
  /\ result[1].ety = Ty_Literal("U32")
  /\ result[1].ctx = call.arg.c

\* C23 as stated: in inline mode an unevaluated constant is evaluated and
\* its value translated, never to a ConstantId and with no global declaration
\* registered or queued, on the MIR-level and on the type-level entry point.
C23_InlineEveryEntryPoint ==
  InlineCall =>
    /\ MirUnevaluated # None => InlinedValueOf(MirUnevaluated[1])
    /\ TyUnevaluated # None => InlinedValueOf(TyUnevaluated[1])

\* C23: in inline mode an unevaluated constant handed over at the MIR level
\* (ConstantKind::Unevaluated) is evaluated and its value translated, never
\* to a ConstantId and with no global declaration registered or queued; at
\* the type level (ConstKind::Unevaluated) the inline translation is not
\* implemented: it fails, and registers no global either.
C23_InlineMirLevel ==
  InlineCall =>
    /\ MirUnevaluated # None => InlinedValueOf(MirUnevaluated[1])
    /\ TyUnevaluated # None =>
         /\ result[1].ret = Panic("not implemented")
         /\ result[1].ctx = call.arg.c

\* The constant item 2, whose global is already registered, was translated
\* in inline mode at the MIR level: the literal 20 came out.
C23_Witness ==
  /\ InlineCall
  /\ MirUnevaluated = Some(2)
  /\ 2 \in DOMAIN call.arg.c.global_id_map.map
  /\ result[1].ret.tag = "Literal"
  /\ result[1].ret.lit = Scalar("U32", SmallInt("U32", 20))

ZeroSizedCall ==
  Returned_from("translate_const_value") /\ call.arg.val.kind = "ZeroSized"

\* C24: translate_const_value on a zero-sized constant returns Adt(None, [])
\* exactly when the destination type is the unit type, and is a fatal failure
\* of an internal invariant for every other destination type.
C24_ZeroSizedIsUnit ==
  ZeroSizedCall =>
    /\ result[1].ctx = call.arg.c
    /\ IF call.arg.llbc_ty = Ty_Tuple(<<>>)
       THEN result[1].ret = Adt(None, <<>>)
       ELSE result[1].ret = Panic("assert")

\* A zero-sized constant was translated at the type of a structure without
\* fields, which is not the unit type: the call failed.
C24_Witness ==
  /\ ZeroSizedCall
  /\ call.arg.llbc_ty = Ty_Adt(2, <<>>)
  /\ type_defs[2].kind = "Struct"
  /\ result[1].ret = Panic("assert")

====
